---- MODULE Spec2Model ----
(***************************************************************************)
(* Dynamic Mockups MCP server: credential resolution (getApiKey), the      *)
(* response formatter, the tool handlers, the CallTool router and the      *)
(* HTTP session registry of src/src/index.js and response-formatter.js.    *)
(*                                                                         *)
(* JavaScript values are tagged pairs <<tag, payload>>:                    *)
(*   <<"str", s>>  <<"num", "404">>  <<"bool", "true">>  <<"null", "">>    *)
(*   <<"undef", "">>  <<"fn", name>>                                       *)
(*   <<"obj", pairs>>  with pairs a sequence of <<key, value>> in the      *)
(*                     enumeration order of the object's own properties    *)
(*   <<"arr", items>>  with items a sequence of values                     *)
(***************************************************************************)
EXTENDS Integers, Sequences, FiniteSets, TLC

VARIABLES
    API_KEY,        \* process.env.DYNAMIC_MOCKUPS_API_KEY, read once at start
    currentTransportMode,   \* "stdio" or "http", set when the server starts
    pc,             \* position of the CallTool handler: idle/awaiting/returned
    req,            \* the request being handled: name, args, extra
    apiKey,         \* the router's const apiKey = getApiKey(extra)
    invoked,        \* what the router called as the tool's handler, if anything
    upstream,       \* requests sent to the tool's API endpoint in this call
    reply,          \* how the upstream call of this invocation ended
    tracked,        \* tracking posts sent to /mcp/track in this call
    result,         \* the value the CallTool handler returned
    escaped,        \* TRUE when an exception left the CallTool handler
    lastKb,         \* the previous knowledge-base call: name, topic, text
    resolved,       \* resolver run: the value getApiKey returned
    transports,     \* HTTP session registry: session id -> transport, server
    created,        \* number of transports (and servers) created so far
    issued,         \* number of session ids generated so far
    closed,         \* session ids whose onsessionclosed callback has fired
    http,           \* the last request on the MCP endpoint and its outcome
    suspended,      \* another session's invocation, waiting while this one runs
    started         \* the transports started in this process

vars == <<API_KEY, currentTransportMode, pc, req, apiKey, invoked, upstream, reply,
          tracked, result, escaped,
          lastKb, resolved, transports, created, issued, closed, http,
          suspended, started>>

routerVars == <<pc, req, apiKey, invoked, upstream, reply, tracked, result, escaped,
                lastKb>>
httpVars == <<transports, created, issued, closed, http>>

-----------------------------------------------------------------------------
(* JavaScript values *)

Str(s) == <<"str", s>>
Num(n) == <<"num", ToString(n)>>
Bool(b) == <<"bool", IF b THEN "true" ELSE "false">>
Null == <<"null", "">>
Undef == <<"undef", "">>
Fn(n) == <<"fn", n>>
Obj(pairs) == <<"obj", pairs>>
Arr(items) == <<"arr", items>>

Tag(v) == v[1]
IsStr(v) == Tag(v) = "str"
IsObj(v) == Tag(v) = "obj"

\* ToBoolean: what `if (v)`, `v || w` and `!v` test
Truthy(v) ==
    CASE Tag(v) = "str" -> v[2] # ""
      [] Tag(v) = "num" -> v[2] # "0"
      [] Tag(v) = "bool" -> v[2] = "true"
      [] Tag(v) \in {"null", "undef"} -> FALSE
      [] OTHER -> TRUE

JsOr(a, b) == IF Truthy(a) THEN a ELSE b

\* canonical array-index property names, which enumerate first and ascending
IndexKeys == <<"0", "1", "2", "3">>
IsIndexKey(k) == \E i \in 1..Len(IndexKeys) : IndexKeys[i] = k
IndexOf(k) == CHOOSE i \in 1..Len(IndexKeys) : IndexKeys[i] = k

KeyBefore(a, b) ==
    IF IsIndexKey(a)
    THEN (~IsIndexKey(b)) \/ IndexOf(a) < IndexOf(b)
    ELSE FALSE

HasKey(pairs, k) == \E i \in 1..Len(pairs) : pairs[i][1] = k
KeyPos(pairs, k) == CHOOSE i \in 1..Len(pairs) : pairs[i][1] = k

\* position at which a new own property k is enumerated
InsertPos(pairs, k) ==
    IF \E i \in 1..Len(pairs) : KeyBefore(k, pairs[i][1])
    THEN CHOOSE i \in 1..Len(pairs) :
            /\ KeyBefore(k, pairs[i][1])
            /\ \A j \in 1..(i - 1) : ~KeyBefore(k, pairs[j][1])
    ELSE Len(pairs) + 1

\* obj[k] = v on own properties
SetProp(pairs, k, v) ==
    IF HasKey(pairs, k)
    THEN [pairs EXCEPT ![KeyPos(pairs, k)] = <<k, v>>]
    ELSE LET p == InsertPos(pairs, k)
         IN SubSeq(pairs, 1, p - 1) \o << <<k, v>> >> \o SubSeq(pairs, p, Len(pairs))

\* members every object literal inherits from Object.prototype
ObjectPrototypeNames ==
    {"constructor", "toString", "valueOf", "hasOwnProperty", "__proto__"}

\* v.k and v?.k : own property, else the inherited member, else undefined
GetProp(v, k) ==
    IF Tag(v) = "obj" /\ HasKey(v[2], k) THEN v[2][KeyPos(v[2], k)][2]
    ELSE IF Tag(v) = "arr" /\ IsIndexKey(k) /\ IndexOf(k) <= Len(v[2])
         THEN v[2][IndexOf(k)]
    ELSE IF Tag(v) \in {"obj", "arr"} /\ k \in ObjectPrototypeNames
         THEN IF k = "__proto__" THEN Obj(<<>>) ELSE Fn(k)
    ELSE Undef

\* own enumerable properties copied by { ...src }
OwnPairs(src) ==
    CASE Tag(src) = "obj" -> src[2]
      [] Tag(src) = "arr" -> [i \in 1..Len(src[2]) |-> <<IndexKeys[i], src[2][i]>>]
      [] Tag(src) = "str" ->
            [i \in 1..Len(src[2]) |-> <<IndexKeys[i], Str(SubSeq(src[2], i, i))>>]
      [] OTHER -> <<>>

RECURSIVE AssignAll(_, _)
AssignAll(pairs, more) ==
    IF more = <<>> THEN pairs
    ELSE AssignAll(SetProp(pairs, more[1][1], more[1][2]), Tail(more))

\* { ...pairs, ...src }
Spread(pairs, src) == AssignAll(pairs, OwnPairs(src))

-----------------------------------------------------------------------------
(* JSON.stringify(value, null, 2) *)

EscapeChar(c) ==
    IF c = "\"" THEN "\\\""
    ELSE IF c = "\\" THEN "\\\\"
    ELSE IF c = "\n" THEN "\\n"
    ELSE c

\* the escaped characters of s[lo..hi], by halves
RECURSIVE EscapeRange(_, _, _)
EscapeRange(s, lo, hi) ==
    IF lo > hi THEN ""
    ELSE IF lo = hi THEN EscapeChar(SubSeq(s, lo, lo))
    ELSE LET mid == (lo + hi) \div 2
         IN EscapeRange(s, lo, mid) \o EscapeRange(s, mid + 1, hi)

Quote(s) == "\"" \o EscapeRange(s, 1, Len(s)) \o "\""

RECURSIVE Indent(_)
Indent(d) == IF d = 0 THEN "" ELSE "  " \o Indent(d - 1)

\* properties whose value JSON.stringify leaves out of an object
Omitted(v) == Tag(v) \in {"undef", "fn"}

RECURSIVE Serialize(_, _)
RECURSIVE SerializeMembers(_, _, _)
RECURSIVE SerializeItems(_, _, _)

SerializeMembers(pairs, d, first) ==
    IF pairs = <<>> THEN ""
    ELSE IF Omitted(pairs[1][2]) THEN SerializeMembers(Tail(pairs), d, first)
    ELSE (IF first THEN "" ELSE ",") \o "\n" \o Indent(d)
         \o Quote(pairs[1][1]) \o ": " \o Serialize(pairs[1][2], d)
         \o SerializeMembers(Tail(pairs), d, FALSE)

SerializeItems(items, d, first) ==
    IF items = <<>> THEN ""
    ELSE (IF first THEN "" ELSE ",") \o "\n" \o Indent(d)
         \o (IF Omitted(items[1]) THEN "null" ELSE Serialize(items[1], d))
         \o SerializeItems(Tail(items), d, FALSE)

Serialize(v, d) ==
    CASE Tag(v) = "str" -> Quote(v[2])
      [] Tag(v) = "num" -> v[2]
      [] Tag(v) = "bool" -> v[2]
      [] Tag(v) = "null" -> "null"
      [] Tag(v) = "obj" ->
            LET body == SerializeMembers(v[2], d + 1, TRUE)
            IN IF body = "" THEN "{}" ELSE "{" \o body \o "\n" \o Indent(d) \o "}"
      [] Tag(v) = "arr" ->
            IF v[2] = <<>> THEN "[]"
            ELSE "[" \o SerializeItems(v[2], d + 1, TRUE) \o "\n" \o Indent(d) \o "]"
      [] OTHER -> ""

\* JSON.stringify returns undefined, not text, for undefined and functions
Stringify(v) == IF Omitted(v) THEN Undef ELSE Str(Serialize(v, 0))

Contains(text, sub) ==
    \E i \in 1..(Len(text) - Len(sub) + 1) : SubSeq(text, i, i + Len(sub) - 1) = sub

-----------------------------------------------------------------------------
(* ResponseFormatter *)

TextBlock(text) == Obj(<< <<"type", Str("text")>>, <<"text", text>> >>)

FormatOk(data) ==
    LET text == IF IsStr(data) THEN data ELSE Stringify(data)
    IN Obj(<< <<"content", Arr(<<TextBlock(text)>>)>> >>)

\* FormatError leaving the details out
FormatError_MessageOnly(message, details) ==
    LET inner == << <<"message", message>> >>
    IN Obj(<< <<"content",
                Arr(<<TextBlock(Stringify(Obj(<< <<"error", Obj(inner)>> >>)))>>)>>,
              <<"isError", Bool(TRUE)>> >>)

\* details is the sequence of own properties of the details object
FormatError(message, details) ==
    LET inner == Spread(<< <<"message", message>> >>, Obj(details))
    IN Obj(<< <<"content",
                Arr(<<TextBlock(Stringify(Obj(<< <<"error", Obj(inner)>> >>)))>>)>>,
              <<"isError", Bool(TRUE)>> >>)


ErrorResponse(status, data) == Obj(<< <<"status", Num(status)>>, <<"data", data>> >>)

\* FromApiResponse without the status in the error details
FromApiResponse_NoStatus(response, successMessage) ==
    LET status == response.status
        data == response.data
    IN IF status >= 400
       THEN FormatError(JsOr(GetProp(data, "message"),
                             JsOr(GetProp(data, "error"),
                                  Str("API error (" \o ToString(status) \o ")"))),
                        << <<"details", data>> >>)
       ELSE IF Truthy(successMessage)
            THEN FormatOk(Obj(Spread(<< <<"message", successMessage>> >>, data)))
            ELSE FormatOk(data)

\* FromApiResponse with the label written after the body's fields
FromApiResponse_LabelLast(response, successMessage) ==
    LET status == response.status
        data == response.data
    IN IF status >= 400
       THEN FormatError(JsOr(GetProp(data, "message"),
                             JsOr(GetProp(data, "error"),
                                  Str("API error (" \o ToString(status) \o ")"))),
                        << <<"status", Num(status)>>, <<"details", data>> >>)
       ELSE IF Truthy(successMessage)
            THEN FormatOk(Obj(SetProp(Spread(<<>>, data), "message", successMessage)))
            ELSE FormatOk(data)

\* response is [status, data]; successMessage is a string value or Null
FromApiResponse(response, successMessage) ==
    LET status == response.status
        data == response.data
    IN IF status >= 400
       THEN LET errorMessage ==
                    JsOr(GetProp(data, "message"),
                         JsOr(GetProp(data, "error"),
                              Str("API error (" \o ToString(status) \o ")")))
            IN FormatError(errorMessage,
                           << <<"status", Num(status)>>, <<"details", data>> >>)
       ELSE IF Truthy(successMessage)
            THEN FormatOk(Obj(Spread(<< <<"message", successMessage>> >>, data)))
            ELSE FormatOk(data)

\* FromError without the branch for a received response
FromError_NoResponse(error, context) ==
    IF error.code = "ECONNABORTED"
    THEN FormatError(Str("Request timeout"),
            << <<"context", Str(context)>>,
               <<"suggestion",
                 Str("The API request took too long. Try again or use smaller batch sizes.")>> >>)
    ELSE IF error.code \in {"ENOTFOUND", "ECONNREFUSED"}
    THEN FormatError(Str("Network error"),
            << <<"context", Str(context)>>,
               <<"suggestion",
                 Str("Unable to reach the API. Check your internet connection.")>> >>)
    ELSE FormatError(Str(context), << <<"message", Str(error.message)>> >>)

\* FromError leaving the context out of the timeout and network details
FromError_NoContext(error, context) ==
    IF Truthy(error.response)
    THEN FormatError(Str(context),
            << <<"status", GetProp(error.response, "status")>>,
               <<"message", JsOr(GetProp(GetProp(error.response, "data"), "message"),
                                 Str(error.message))>>,
               <<"details", GetProp(error.response, "data")>> >>)
    ELSE IF error.code = "ECONNABORTED"
    THEN FormatError(Str("Request timeout"),
            << <<"suggestion",
                 Str("The API request took too long. Try again or use smaller batch sizes.")>> >>)
    ELSE IF error.code \in {"ENOTFOUND", "ECONNREFUSED"}
    THEN FormatError(Str("Network error"),
            << <<"suggestion",
                 Str("Unable to reach the API. Check your internet connection.")>> >>)
    ELSE FormatError(Str(context), << <<"message", Str(error.message)>> >>)

\* error is [response, code, message]; response is Undef when none was received
FromError(error, context) ==
    IF Truthy(error.response)
    THEN FormatError(Str(context),
            << <<"status", GetProp(error.response, "status")>>,
               <<"message", JsOr(GetProp(GetProp(error.response, "data"), "message"),
                                 Str(error.message))>>,
               <<"details", GetProp(error.response, "data")>> >>)
    ELSE IF error.code = "ECONNABORTED"
    THEN FormatError(Str("Request timeout"),
            << <<"context", Str(context)>>,
               <<"suggestion",
                 Str("The API request took too long. Try again or use smaller batch sizes.")>> >>)
    ELSE IF error.code \in {"ENOTFOUND", "ECONNREFUSED"}
    THEN FormatError(Str("Network error"),
            << <<"context", Str(context)>>,
               <<"suggestion",
                 Str("Unable to reach the API. Check your internet connection.")>> >>)
    ELSE FormatError(Str(context), << <<"message", Str(error.message)>> >>)

-----------------------------------------------------------------------------
(* Configuration and HTTP client *)

API_BASE_URL == "https://app.dynamicmockups.com/api/v1"

\* String.prototype.startsWith and slice on a string
StartsWith(s, prefix) == Len(s) >= Len(prefix) /\ SubSeq(s, 1, Len(prefix)) = prefix
Slice(s, n) == SubSeq(s, n + 1, Len(s))

\* GetApiKey reading the x-api-key header before the Authorization header
GetApiKey_KeyHeaderFirst(extra, envKey) ==
    LET headers == GetProp(GetProp(extra, "requestInfo"), "headers")
        authHeader == JsOr(GetProp(headers, "authorization"),
                           GetProp(headers, "Authorization"))
        apiKeyHeader == JsOr(GetProp(headers, "x-api-key"),
                             GetProp(headers, "X-Api-Key"))
    IN IF Truthy(headers) /\ Truthy(apiKeyHeader)
       THEN <<"return", apiKeyHeader>>
       ELSE IF Truthy(headers) /\ Truthy(authHeader) /\ IsStr(authHeader)
               /\ StartsWith(authHeader[2], "Bearer ")
       THEN <<"return", Str(Slice(authHeader[2], 7))>>
       ELSE <<"return", envKey>>

\* GetApiKey preferring the environment key when one is set
GetApiKey_EnvFirst(extra, envKey) ==
    LET headers == GetProp(GetProp(extra, "requestInfo"), "headers")
        authHeader == JsOr(GetProp(headers, "authorization"),
                           GetProp(headers, "Authorization"))
        apiKeyHeader == JsOr(GetProp(headers, "x-api-key"),
                             GetProp(headers, "X-Api-Key"))
    IN IF Truthy(envKey) THEN <<"return", envKey>>
       ELSE IF Truthy(headers) /\ Truthy(authHeader) /\ IsStr(authHeader)
               /\ StartsWith(authHeader[2], "Bearer ")
       THEN <<"return", Str(Slice(authHeader[2], 7))>>
       ELSE IF Truthy(headers) /\ Truthy(apiKeyHeader)
       THEN <<"return", apiKeyHeader>>
       ELSE <<"return", envKey>>

\* GetApiKey matching the Bearer prefix in either case
GetApiKey_AnyBearerCase(extra, envKey) ==
    LET headers == GetProp(GetProp(extra, "requestInfo"), "headers")
        authHeader == JsOr(GetProp(headers, "authorization"),
                           GetProp(headers, "Authorization"))
        apiKeyHeader == JsOr(GetProp(headers, "x-api-key"),
                             GetProp(headers, "X-Api-Key"))
    IN IF Truthy(headers)
       THEN IF Truthy(authHeader) /\ ~IsStr(authHeader)
            THEN <<"throw", "authHeader.startsWith is not a function">>
            ELSE IF Truthy(authHeader)
                    /\ (StartsWith(authHeader[2], "Bearer ")
                        \/ StartsWith(authHeader[2], "bearer "))
            THEN <<"return", Str(Slice(authHeader[2], 7))>>
            ELSE IF Truthy(apiKeyHeader)
            THEN <<"return", apiKeyHeader>>
            ELSE <<"return", envKey>>
       ELSE <<"return", envKey>>

\* GetApiKey keeping to the key of the other invocation in progress
GetApiKey_Shared(extra, envKey) ==
    LET headers == GetProp(GetProp(extra, "requestInfo"), "headers")
        authHeader == JsOr(GetProp(headers, "authorization"),
                           GetProp(headers, "Authorization"))
        apiKeyHeader == JsOr(GetProp(headers, "x-api-key"),
                             GetProp(headers, "X-Api-Key"))
    IN IF Truthy(suspended.apiKey)
       THEN <<"return", suspended.apiKey>>
       ELSE IF Truthy(headers)
       THEN IF Truthy(authHeader) /\ ~IsStr(authHeader)
            THEN <<"throw", "authHeader.startsWith is not a function">>
            ELSE IF Truthy(authHeader) /\ StartsWith(authHeader[2], "Bearer ")
            THEN <<"return", Str(Slice(authHeader[2], 7))>>
            ELSE IF Truthy(apiKeyHeader)
            THEN <<"return", apiKeyHeader>>
            ELSE <<"return", envKey>>
       ELSE <<"return", envKey>>

\* GetApiKey passing over a Bearer header whose token is empty
GetApiKey_SkipEmptyToken(extra, envKey) ==
    LET headers == GetProp(GetProp(extra, "requestInfo"), "headers")
        authHeader == JsOr(GetProp(headers, "authorization"),
                           GetProp(headers, "Authorization"))
        apiKeyHeader == JsOr(GetProp(headers, "x-api-key"),
                             GetProp(headers, "X-Api-Key"))
    IN IF Truthy(headers)
       THEN IF Truthy(authHeader) /\ ~IsStr(authHeader)
            THEN <<"throw", "authHeader.startsWith is not a function">>
            ELSE IF /\ Truthy(authHeader)
                    /\ StartsWith(authHeader[2], "Bearer ")
                    /\ Slice(authHeader[2], 7) # ""
            THEN <<"return", Str(Slice(authHeader[2], 7))>>
            ELSE IF Truthy(apiKeyHeader)
            THEN <<"return", apiKeyHeader>>
            ELSE <<"return", envKey>>
       ELSE <<"return", envKey>>

\* Returns <<"return", value>>, or <<"throw", message>> when authHeader is a
\* truthy value without a startsWith method.
GetApiKey(extra, envKey) ==
    LET headers == GetProp(GetProp(extra, "requestInfo"), "headers")
        authHeader == JsOr(GetProp(headers, "authorization"),
                           GetProp(headers, "Authorization"))
        apiKeyHeader == JsOr(GetProp(headers, "x-api-key"),
                             GetProp(headers, "X-Api-Key"))
    IN IF Truthy(headers)
       THEN IF Truthy(authHeader) /\ ~IsStr(authHeader)
            THEN <<"throw", "authHeader.startsWith is not a function">>
            ELSE IF Truthy(authHeader) /\ StartsWith(authHeader[2], "Bearer ")
            THEN <<"return", Str(Slice(authHeader[2], 7))>>
            ELSE IF Truthy(apiKeyHeader)
            THEN <<"return", apiKeyHeader>>
            ELSE <<"return", envKey>>
       ELSE <<"return", envKey>>

\* ValidateApiKey that accepts every key
ValidateApiKey_Lenient(key) == Null

\* null when the key is usable, else the configuration error result
ValidateApiKey(key) ==
    IF ~Truthy(key)
    THEN FormatError(Str("API key not configured"),
            << <<"solution",
                 Str("Provide your Dynamic Mockups API key. For HTTP transport, use the Authorization header (Bearer token). For stdio transport, set the DYNAMIC_MOCKUPS_API_KEY environment variable.")>>,
               <<"get_key_at", Str("https://app.dynamicmockups.com/dashboard-api")>> >>)
    ELSE Null

GetMcpTrackingHeaders(toolName, mode) ==
    << <<"x-mcp-server", Str("true")>>,
       <<"x-mcp-tool", Str(toolName)>>,
       <<"x-mcp-transport-mode", Str(mode)>> >>

\* headers of the axios instance createApiClient builds
ApiClientHeaders(key, toolName, mode) ==
    Spread(<< <<"Accept", Str("application/json")>>,
              <<"Content-Type", Str("application/json")>>,
              <<"x-api-key", JsOr(key, Str(""))>> >>,
           Obj(GetMcpTrackingHeaders(toolName, mode)))

\* validateStatus of the axios instance: statuses below 500 resolve
ValidateStatus(status) == status < 500

\* What the awaited axios call settles to for a network outcome
\* [kind, status, data, code, message]: <<"resolve", response>> or
\* <<"reject", error>>.
AxiosSettle(outcome) ==
    IF outcome.kind = "http"
    THEN IF ValidateStatus(outcome.status)
         THEN <<"resolve", [status |-> outcome.status, data |-> outcome.data]>>
         ELSE <<"reject",
                [response |-> ErrorResponse(outcome.status, outcome.data),
                 code |-> "ERR_BAD_RESPONSE",
                 message |-> "Request failed with status code "
                             \o ToString(outcome.status)]>>
    ELSE <<"reject",
           [response |-> Undef, code |-> outcome.code, message |-> outcome.message]>>

\* TrackToolUsage without the early return for a missing key
TrackToolUsage_NoKeyCheck(posts, toolName, key, success, error, mode) ==
    Append(posts,
        [method |-> "POST",
         url |-> API_BASE_URL \o "/mcp/track",
         body |-> Obj(<< <<"tool", Str(toolName)>>,
                         <<"success", Bool(success)>>,
                         <<"error", JsOr(error, Null)>> >>),
         headers |-> Obj(<< <<"x-api-key", JsOr(key, Str(""))>> >>),
         state |-> "pending"])

\* The tracking posts after trackToolUsage(toolName, key, {success, error})
TrackToolUsage(posts, toolName, key, success, error, mode) ==
    IF ~Truthy(key) THEN posts
    ELSE Append(posts,
            [method |-> "POST",
             url |-> API_BASE_URL \o "/mcp/track",
             body |-> Obj(<< <<"tool", Str(toolName)>>,
                             <<"success", Bool(success)>>,
                             <<"error", JsOr(error, Null)>> >>),
             headers |-> Obj(ApiClientHeaders(key, toolName, mode)),
             state |-> "pending"])


-----------------------------------------------------------------------------
(* Knowledge-base tools.  Each section of the two static tables is kept    *)
(* with its key and an abbreviated value.                                  *)

API_KNOWLEDGE_BASE ==
    Obj(<< <<"overview", Str("Dynamic Mockups API")>>,
           <<"integration", Obj(<< <<"base_url", Str(API_BASE_URL)>> >>)>>,
           <<"billing", Obj(<< <<"credits_per_image", Num(1)>> >>)>>,
           <<"rate_limits", Obj(<< <<"requests_per_minute", Num(300)>> >>)>>,
           <<"rendered_images", Obj(<< <<"availability_hours", Num(24)>> >>)>>,
           <<"supported_formats", Obj(<< <<"output", Arr(<<Str("jpg"), Str("png")>>)>> >>)>>,
           <<"asset_upload", Obj(<< <<"methods", Arr(<<Str("URL")>>)>> >>)>>,
           <<"best_practices", Arr(<<Str("Use create_batch_render")>>)>>,
           <<"support", Obj(<< <<"email", Str("support@dynamicmockups.com")>> >>)>> >>)

EMBED_EDITOR_KNOWLEDGE_BASE ==
    Obj(<< <<"overview", Str("Embed Editor")>>,
           <<"editor_types", Obj(<< <<"classic", Str("c")>> >>)>>,
           <<"quick_start", Obj(<< <<"step_1", Str("s")>> >>)>>,
           <<"npm_integration", Obj(<< <<"install", Str("npm")>> >>)>>,
           <<"specific_mockup", Obj(<< <<"url", Str("u")>> >>)>>,
           <<"init_function_params", Obj(<< <<"mode", Str("m")>> >>)>>,
           <<"data_options", Obj(<< <<"designUrl", Str("d")>> >>)>>,
           <<"integration_steps",
             Obj(<< <<"classic_cdn", Str("cdn")>>,
                    <<"classic_npm", Str("npm")>>,
                    <<"mockanything_static", Str("st")>>,
                    <<"mockanything_api", Str("api")>> >>)>>,
           <<"callback_response", Obj(<< <<"fields", Str("f")>> >>)>>,
           <<"mockanything_api_integration", Obj(<< <<"step", Str("a")>> >>)>>,
           <<"mockanything_events", Obj(<< <<"event", Str("e")>> >>)>>,
           <<"react_example", Str("import React")>>,
           <<"docs_url", Str("https://docs.dynamicmockups.com/mockup-editor-sdk")>> >>)

Section(kb, k) == <<k, GetProp(kb, k)>>

HandleGetApiInfo(args) ==
    LET kb == API_KNOWLEDGE_BASE
        topic == JsOr(GetProp(args, "topic"), Str("all"))
        topicMap ==
            Obj(<< <<"integration", Obj(<<Section(kb, "integration")>>)>>,
                   <<"billing", Obj(<<Section(kb, "billing")>>)>>,
                   <<"rate_limits", Obj(<<Section(kb, "rate_limits")>>)>>,
                   <<"formats", Obj(<<Section(kb, "supported_formats"),
                                      Section(kb, "asset_upload")>>)>>,
                   <<"best_practices", Obj(<<Section(kb, "best_practices")>>)>>,
                   <<"support", Obj(<<Section(kb, "support")>>)>>,
                   <<"all", kb>> >>)
    IN FormatOk(JsOr(GetProp(topicMap, topic[2]), kb))

HandleGetEmbedEditorInfo(args) ==
    LET kb == EMBED_EDITOR_KNOWLEDGE_BASE
        steps == GetProp(kb, "integration_steps")
        topic == JsOr(GetProp(args, "topic"), Str("all"))
        topicMap ==
            Obj(<< <<"quick_start",
                     Obj(<<Section(kb, "overview"), Section(kb, "quick_start"),
                           Section(kb, "init_function_params"),
                           Section(kb, "integration_steps")>>)>>,
                   <<"npm_integration",
                     Obj(<<Section(kb, "npm_integration"),
                           Section(kb, "init_function_params"),
                           <<"integration_steps",
                             Obj(<<Section(steps, "classic_npm")>>)>> >>)>>,
                   <<"data_options", Obj(<<Section(kb, "data_options")>>)>>,
                   <<"callback_response", Obj(<<Section(kb, "callback_response")>>)>>,
                   <<"mockanything_api",
                     Obj(<<Section(kb, "mockanything_api_integration"),
                           Section(kb, "mockanything_events"),
                           <<"integration_steps",
                             Obj(<<Section(steps, "mockanything_static"),
                                   Section(steps, "mockanything_api")>>)>> >>)>>,
                   <<"mockanything_events", Obj(<<Section(kb, "mockanything_events")>>)>>,
                   <<"react_example",
                     Obj(<<Section(kb, "react_example"),
                           <<"integration_steps",
                             Obj(<<Section(steps, "mockanything_api")>>)>> >>)>>,
                   <<"editor_types", Obj(<<Section(kb, "editor_types")>>)>>,
                   <<"specific_mockup", Obj(<<Section(kb, "specific_mockup")>>)>>,
                   <<"integration_steps", Obj(<<Section(kb, "integration_steps")>>)>>,
                   <<"all", kb>> >>)
    IN FormatOk(JsOr(GetProp(topicMap, topic[2]), kb))

-----------------------------------------------------------------------------
(* Network tools: the request each handler builds *)

\* String(v), as template literals and URLSearchParams.append convert
ToJsString(v) ==
    CASE Tag(v) = "str" -> v[2]
      [] Tag(v) = "num" -> v[2]
      [] Tag(v) = "bool" -> v[2]
      [] Tag(v) = "null" -> "null"
      [] Tag(v) = "undef" -> "undefined"
      [] Tag(v) = "obj" -> "[object Object]"
      [] OTHER -> ""

\* application/x-www-form-urlencoded serialisation of one name or value
FormEncodeChar(c) ==
    IF c = " " THEN "+"
    ELSE IF c = "&" THEN "%26"
    ELSE IF c = "=" THEN "%3D"
    ELSE IF c = "[" THEN "%5B"
    ELSE IF c = "]" THEN "%5D"
    ELSE c

RECURSIVE FormEncodeRange(_, _, _)
FormEncodeRange(s, lo, hi) ==
    IF lo > hi THEN ""
    ELSE IF lo = hi THEN FormEncodeChar(SubSeq(s, lo, lo))
    ELSE LET mid == (lo + hi) \div 2
         IN FormEncodeRange(s, lo, mid) \o FormEncodeRange(s, mid + 1, hi)

FormEncode(s) == FormEncodeRange(s, 1, Len(s))

\* URLSearchParams.toString() of the appended <<name, value>> list
RECURSIVE ParamsToString(_, _)
ParamsToString(params, first) ==
    IF params = <<>> THEN ""
    ELSE (IF first THEN "" ELSE "&")
         \o FormEncode(params[1][1]) \o "=" \o FormEncode(ToJsString(params[1][2]))
         \o ParamsToString(Tail(params), FALSE)

\* if (args.k) params.append(k, args.k) / payload.k = args.k
WhenTruthy(args, k) ==
    IF Truthy(GetProp(args, k)) THEN << <<k, GetProp(args, k)>> >> ELSE <<>>

\* if (args.k !== undefined) ...
WhenDefined(args, k) ==
    IF GetProp(args, k) # Undef THEN << <<k, GetProp(args, k)>> >> ELSE <<>>

Required(args, k) == << <<k, GetProp(args, k)>> >>

Get(path) == [method |-> "GET", path |-> path, body |-> Undef]
Post(path, payload) == [method |-> "POST", path |-> path, body |-> Obj(payload)]

GetCatalogsRequest(args) == Get("/catalogs")

GetCollectionsRequest(args) ==
    Get("/collections?"
        \o ParamsToString(WhenTruthy(args, "catalog_uuid")
                          \o WhenDefined(args, "include_all_catalogs"), TRUE))

CreateCollectionRequest(args) ==
    Post("/collections", Required(args, "name") \o WhenTruthy(args, "catalog_uuid"))

GetMockupsRequest(args) ==
    Get("/mockups?"
        \o ParamsToString(WhenTruthy(args, "catalog_uuid")
                          \o WhenTruthy(args, "collection_uuid")
                          \o WhenDefined(args, "include_all_catalogs")
                          \o WhenTruthy(args, "name"), TRUE))

GetMockupByUuidRequest(args) ==
    Get("/mockup/" \o ToJsString(GetProp(args, "uuid")))

\* CreateRenderPayload copying export_options unconditionally
CreateRenderPayload_Eager(args) ==
    Required(args, "mockup_uuid") \o Required(args, "smart_objects")
    \o WhenTruthy(args, "export_label")
    \o Required(args, "export_options")
    \o WhenTruthy(args, "text_layers")

CreateRenderPayload(args) ==
    Required(args, "mockup_uuid") \o Required(args, "smart_objects")
    \o WhenTruthy(args, "export_label")
    \o WhenTruthy(args, "export_options")
    \o WhenTruthy(args, "text_layers")

CreateBatchRenderPayload(args) ==
    Required(args, "renders") \o WhenTruthy(args, "export_options")

ExportPrintFilesPayload(args) ==
    Required(args, "mockup_uuid") \o Required(args, "smart_objects")
    \o WhenTruthy(args, "export_label")
    \o WhenTruthy(args, "export_options")
    \o WhenTruthy(args, "text_layers")

UploadPsdPayload(args) ==
    Required(args, "psd_file_url")
    \o WhenTruthy(args, "psd_name")
    \o WhenTruthy(args, "psd_category_id")
    \o WhenTruthy(args, "mockup_template")

DeletePsdPayload(args) ==
    Required(args, "psd_uuid") \o WhenDefined(args, "delete_related_mockups")

KnowledgeTools == {"get_api_info", "embed_mockup_editor"}

NetworkTools ==
    {"get_catalogs", "get_collections", "create_collection", "get_mockups",
     "get_mockup_by_uuid", "create_render", "create_batch_render",
     "export_print_files", "upload_psd", "delete_psd"}

\* the request a network handler hands to its axios client
HandlerRequest(name, args) ==
    CASE name = "get_catalogs" -> GetCatalogsRequest(args)
      [] name = "get_collections" -> GetCollectionsRequest(args)
      [] name = "create_collection" -> CreateCollectionRequest(args)
      [] name = "get_mockups" -> GetMockupsRequest(args)
      [] name = "get_mockup_by_uuid" -> GetMockupByUuidRequest(args)
      [] name = "create_render" -> Post("/renders", CreateRenderPayload(args))
      [] name = "create_batch_render" ->
            Post("/renders/batch", CreateBatchRenderPayload(args))
      [] name = "export_print_files" ->
            Post("/renders/print-files", ExportPrintFilesPayload(args))
      [] name = "upload_psd" -> Post("/psd/upload", UploadPsdPayload(args))
      [] name = "delete_psd" -> Post("/psd/delete", DeletePsdPayload(args))

\* args.renders?.length || 0
RendersCount(args) ==
    LET r == GetProp(args, "renders")
    IN IF Tag(r) = "arr" THEN Len(r[2])
       ELSE IF Tag(r) = "str" THEN Len(r[2])
       ELSE 0

\* second argument of fromApiResponse; Null is the parameter's default
SuccessMessage(name, args) ==
    CASE name = "create_collection" ->
            Str("Collection \"" \o ToJsString(GetProp(args, "name")) \o "\" created")
      [] name = "create_render" -> Str("Render created (1 credit used)")
      [] name = "create_batch_render" ->
            Str("Batch render complete (" \o ToString(RendersCount(args))
                \o " credits used)")
      [] name = "export_print_files" -> Str("Print files exported")
      [] name = "upload_psd" -> Str("PSD uploaded successfully")
      [] name = "delete_psd" -> Str("PSD deleted successfully")
      [] OTHER -> Null

\* second argument of fromError in the handler's catch
ErrorContext(name) ==
    CASE name = "get_catalogs" -> "Failed to get catalogs"
      [] name = "get_collections" -> "Failed to get collections"
      [] name = "create_collection" -> "Failed to create collection"
      [] name = "get_mockups" -> "Failed to get mockups"
      [] name = "get_mockup_by_uuid" -> "Failed to get mockup"
      [] name = "create_render" -> "Failed to create render"
      [] name = "create_batch_render" -> "Failed to create batch render"
      [] name = "export_print_files" -> "Failed to export print files"
      [] name = "upload_psd" -> "Failed to upload PSD"
      [] name = "delete_psd" -> "Failed to delete PSD"

\* the names of the catalog returned by ListTools, in catalog order
tools ==
    <<"get_api_info", "embed_mockup_editor", "get_catalogs", "get_collections",
      "create_collection", "get_mockups", "get_mockup_by_uuid", "create_render",
      "create_batch_render", "export_print_files", "upload_psd", "delete_psd">>

\* a handler table that lost its last entry
ToolHandlerKeys_NoDeletePsd ==
    <<"get_api_info", "embed_mockup_editor", "get_catalogs", "get_collections",
      "create_collection", "get_mockups", "get_mockup_by_uuid", "create_render",
      "create_batch_render", "export_print_files", "upload_psd">>

\* the own keys of toolHandlers, in the order of the object literal
ToolHandlerKeys ==
    <<"get_api_info", "embed_mockup_editor", "get_catalogs", "get_collections",
      "create_collection", "get_mockups", "get_mockup_by_uuid", "create_render",
      "create_batch_render", "export_print_files", "upload_psd", "delete_psd">>

\* toolHandlers[name]: the entry of an own key, else what the prototype has
ToolHandlers(name) ==
    IF \E i \in DOMAIN ToolHandlerKeys : ToolHandlerKeys[i] = name THEN Fn(name)
    ELSE GetProp(Obj(<<>>), name)


-----------------------------------------------------------------------------
(* Inputs *)

Absent == <<"absent", "">>

\* all argument objects over a list of <<key, candidate values>>; a key
\* whose candidate is Absent is left out of the object
RECURSIVE ArgObjects(_)
ArgObjects(fields) ==
    IF fields = <<>> THEN {<<>>}
    ELSE {(IF v = Absent THEN <<>> ELSE << <<fields[1][1], v>> >>) \o rest :
            v \in fields[1][2], rest \in ArgObjects(Tail(fields))}

SmartObjects == Arr(<<Obj(<< <<"uuid", Str("so1")>> >>)>>)
ExportOptions == Obj(<< <<"image_format", Str("png")>> >>)
Renders == Arr(<<Obj(<< <<"mockup_uuid", Str("m1")>> >>),
                 Obj(<< <<"mockup_uuid", Str("m2")>> >>)>>)

RenderFields ==
    << <<"mockup_uuid", {Absent, Str("m1")}>>,
       <<"smart_objects", {SmartObjects}>>,
       <<"export_label", {Absent, Str("lbl"), Str("")}>>,
       <<"export_options", {Absent, ExportOptions}>>,
       <<"text_layers", {Absent, Arr(<<>>)}>> >>

ArgFields(name) ==
    CASE name = "get_api_info" ->
            << <<"topic", {Absent, Str("billing"), Str("all"), Str("nope"),
                            Str("constructor")}>> >>
      [] name = "embed_mockup_editor" ->
            << <<"topic", {Absent, Str("quick_start"), Str("all"), Str("nope"),
                            Str("constructor")}>> >>
      [] name = "get_collections" ->
            << <<"catalog_uuid", {Absent, Str("c1")}>>,
               <<"include_all_catalogs", {Absent, Bool(TRUE), Bool(FALSE)}>> >>
      [] name = "create_collection" ->
            << <<"name", {Absent, Str("Tees")}>>,
               <<"catalog_uuid", {Absent, Str("c1"), Str("")}>> >>
      [] name = "get_mockups" ->
            << <<"catalog_uuid", {Absent, Str("c1")}>>,
               <<"collection_uuid", {Absent, Str("col1")}>>,
               <<"include_all_catalogs", {Absent, Bool(FALSE)}>>,
               <<"name", {Absent, Str("my shirt")}>> >>
      [] name = "get_mockup_by_uuid" -> << <<"uuid", {Absent, Str("m1")}>> >>
      [] name = "create_render" -> RenderFields
      [] name = "export_print_files" -> RenderFields
      [] name = "create_batch_render" ->
            << <<"renders", {Absent, Renders}>>,
               <<"export_options", {Absent, ExportOptions}>> >>
      [] name = "upload_psd" ->
            << <<"psd_file_url", {Absent, Str("https://x/a.psd")}>>,
               <<"psd_name", {Absent, Str("n")}>>,
               <<"psd_category_id", {Absent, Num(0), Num(5)}>>,
               <<"mockup_template", {Absent, Obj(<< <<"create_after_upload", Bool(TRUE)>> >>)}>> >>
      [] name = "delete_psd" ->
            << <<"psd_uuid", {Absent, Str("p1")}>>,
               <<"delete_related_mockups", {Absent, Bool(TRUE), Bool(FALSE)}>> >>
      [] OTHER -> <<>>

\* the required list of each tool's input schema
RequiredArguments(name) ==
    CASE name = "create_collection" -> {"name"}
      [] name = "get_mockup_by_uuid" -> {"uuid"}
      [] name = "create_render" -> {"mockup_uuid", "smart_objects"}
      [] name = "create_batch_render" -> {"renders"}
      [] name = "export_print_files" -> {"mockup_uuid", "smart_objects"}
      [] name = "upload_psd" -> {"psd_file_url"}
      [] name = "delete_psd" -> {"psd_uuid"}
      [] OTHER -> {}

\* names a client may send that are not in the catalog
OtherNames == {"does_not_exist", "constructor", "toString", "valueOf", "__proto__"}

ToolNames == KnowledgeTools \cup NetworkTools \cup OtherNames

ArgsOf(name) == {Obj(a) : a \in ArgObjects(ArgFields(name))}

\* request header bags the HTTP transport hands over in extra.requestInfo
HeaderBag(auth, key) ==
    (IF auth[2] = Absent THEN <<>> ELSE << <<auth[1], auth[2]>> >>)
    \o (IF key[2] = Absent THEN <<>> ELSE << <<key[1], key[2]>> >>)

HttpExtra(bag) ==
    Obj(<< <<"requestInfo", Obj(<< <<"headers", Obj(bag)>> >>)>> >>)

\* extra of a stdio request carries no requestInfo
StdioExtra == Obj(<< <<"requestId", Num(1)>> >>)

RouterBags ==
    {HeaderBag(<<"authorization", a>>, <<"x-api-key", k>>) :
        a \in {Absent, Str("Bearer key-a"), Str("Bearer ")},
        k \in {Absent, Str("key-x")}}

ExtrasFor(mode) ==
    IF mode = "stdio" THEN {StdioExtra} ELSE {HttpExtra(b) : b \in RouterBags}

EnvKeys == {Undef, Str(""), Str("key-env")}

Statuses == {200, 299, 400, 404, 499, 500, 503}

Bodies ==
    {Obj(<< <<"message", Str("Invalid \"uuid\"")>> >>),
     Obj(<< <<"error", Str("Unauthorized")>> >>),
     Obj(<< <<"message", Str("")>>, <<"code", Num(7)>> >>),
     Obj(<< <<"success", Bool(TRUE)>>,
            <<"data", Obj(<< <<"uuid", Str("u1")>> >>)>> >>),
     Obj(<< <<"message", Str("done")>>, <<"data", Arr(<<Str("a")>>)>> >>),
     Obj(<< <<"message", Obj(<< <<"uuid", Arr(<<Str("required")>>)>> >>)>> >>),
     Str("Bad"),
     Null}

Failures ==
    {[code |-> "ECONNABORTED", message |-> "timeout of 60000ms exceeded"],
     [code |-> "ENOTFOUND", message |-> "getaddrinfo ENOTFOUND app.dynamicmockups.com"],
     [code |-> "ECONNREFUSED", message |-> "connect ECONNREFUSED"],
     [code |-> "ECONNRESET", message |-> "socket hang up"]}

Outcomes ==
    {[kind |-> "http", status |-> st, data |-> b, code |-> "", message |-> ""] :
        st \in Statuses, b \in Bodies}
    \cup {[kind |-> "fail", status |-> 0, data |-> Undef,
           code |-> f.code, message |-> f.message] : f \in Failures}

-----------------------------------------------------------------------------
(* The CallTool request handler *)

NoReq == [name |-> "", args |-> Obj(<<>>), extra |-> Undef]
NoKb == [name |-> "", topic |-> Undef, text |-> Undef]
NoReply == [kind |-> "none", status |-> 0, data |-> Undef, code |-> "", message |-> ""]

\* the handler's state when no request is being handled
NoInvocation ==
    [pc |-> "idle", req |-> NoReq, apiKey |-> Undef, invoked |-> Undef,
     upstream |-> <<>>, reply |-> NoReply, tracked |-> <<>>, result |-> Undef,
     escaped |-> FALSE]

\* result.content?.[0]?.text
ResultText(r) == GetProp(GetProp(GetProp(r, "content"), "0"), "text")
\* result.isError || false
ResultIsError(r) == Truthy(GetProp(r, "isError"))

\* the try block after the handler returned r: tracking, then return r
Returned(name, key, r) ==
    LET isError == ResultIsError(r)
        errorMessage == IF isError /\ Truthy(ResultText(r)) THEN ResultText(r) ELSE Null
    IN /\ result' = r
       /\ tracked' = TrackToolUsage(<<>>, name, key, ~isError, errorMessage,
                                    currentTransportMode)
       /\ escaped' = FALSE
       /\ pc' = "returned"

\* the catch block of the router for a thrown error with this message
Caught(name, key, message) ==
    LET err == [response |-> Undef, code |-> "", message |-> message]
    IN /\ result' = FromError(err, "Error executing " \o name)
       /\ tracked' = TrackToolUsage(<<>>, name, key, FALSE,
                                    JsOr(Str(message), Str("Error executing " \o name)),
                                    currentTransportMode)
       /\ escaped' = FALSE
       /\ pc' = "returned"

\* Receive with a router that rejects a call that lacks a required argument
Receive_RequiresArguments(name, args, extra) ==
    /\ pc = "idle"
    /\ req' = [name |-> name, args |-> args, extra |-> extra]
    /\ lastKb' = IF name \in KnowledgeTools THEN lastKb ELSE NoKb
    /\ reply' = NoReply
    /\ LET got == GetApiKey(extra, API_KEY)
           key == got[2]
           handler == ToolHandlers(name)
       IN IF got[1] = "throw"
          THEN /\ apiKey' = Undef
               /\ result' = Undef
               /\ escaped' = TRUE
               /\ pc' = "returned"
               /\ UNCHANGED <<invoked, upstream, tracked>>
          ELSE /\ apiKey' = key
               /\ invoked' = IF Truthy(handler) THEN handler ELSE Undef
               /\ IF ~Truthy(handler)
                  THEN /\ result' = FormatError(Str("Unknown tool: " \o name), <<>>)
                       /\ tracked' = TrackToolUsage(<<>>, name, key, FALSE,
                                                    Str("Unknown tool: " \o name),
                                                    currentTransportMode)
                       /\ escaped' = FALSE
                       /\ pc' = "returned"
                       /\ upstream' = <<>>
                  ELSE IF \E k \in RequiredArguments(name) : GetProp(args, k) = Undef
                  THEN Returned(name, key,
                                FormatError(Str("Missing required argument"), <<>>))
                       /\ upstream' = <<>>
                  ELSE IF name = "get_api_info"
                  THEN Returned(name, key, HandleGetApiInfo(args)) /\ upstream' = <<>>
                  ELSE IF name = "embed_mockup_editor"
                  THEN Returned(name, key, HandleGetEmbedEditorInfo(args))
                       /\ upstream' = <<>>
                  ELSE IF name \in NetworkTools
                  THEN IF ValidateApiKey(key) # Null
                       THEN Returned(name, key, ValidateApiKey(key)) /\ upstream' = <<>>
                       ELSE /\ upstream' =
                                 << [HandlerRequest(name, args) EXCEPT
                                       !.path = API_BASE_URL \o @]
                                    @@ [headers |->
                                          Obj(ApiClientHeaders(key, name,
                                                currentTransportMode))] >>
                            /\ pc' = "awaiting"
                            /\ UNCHANGED <<tracked, result, escaped>>
                  \* an inherited member of the table, called with no receiver
                  ELSE IF handler = Fn("constructor")
                  THEN Returned(name, key, args) /\ upstream' = <<>>
                  ELSE IF handler = Fn("toString")
                  THEN Returned(name, key, Str("[object Undefined]")) /\ upstream' = <<>>
                  ELSE IF Tag(handler) = "fn"
                  THEN Caught(name, key, "Cannot convert undefined or null to object")
                       /\ upstream' = <<>>
                  ELSE Caught(name, key, "handler is not a function")
                       /\ upstream' = <<>>
    /\ UNCHANGED <<API_KEY, currentTransportMode, resolved>>
    /\ UNCHANGED httpVars
    /\ UNCHANGED <<suspended, started>>

\* A request arrives; the handler runs up to its first suspension point.
Receive(name, args, extra) ==
    /\ pc = "idle"
    /\ req' = [name |-> name, args |-> args, extra |-> extra]
    /\ lastKb' = IF name \in KnowledgeTools THEN lastKb ELSE NoKb
    /\ reply' = NoReply
    /\ LET got == GetApiKey(extra, API_KEY)
           key == got[2]
           handler == ToolHandlers(name)
       IN IF got[1] = "throw"
          THEN /\ apiKey' = Undef
               /\ result' = Undef
               /\ escaped' = TRUE
               /\ pc' = "returned"
               /\ UNCHANGED <<invoked, upstream, tracked>>
          ELSE /\ apiKey' = key
               /\ invoked' = IF Truthy(handler) THEN handler ELSE Undef
               /\ IF ~Truthy(handler)
                  THEN /\ result' = FormatError(Str("Unknown tool: " \o name), <<>>)
                       /\ tracked' = TrackToolUsage(<<>>, name, key, FALSE,
                                                    Str("Unknown tool: " \o name),
                                                    currentTransportMode)
                       /\ escaped' = FALSE
                       /\ pc' = "returned"
                       /\ upstream' = <<>>
                  ELSE IF name = "get_api_info"
                  THEN Returned(name, key, HandleGetApiInfo(args)) /\ upstream' = <<>>
                  ELSE IF name = "embed_mockup_editor"
                  THEN Returned(name, key, HandleGetEmbedEditorInfo(args))
                       /\ upstream' = <<>>
                  ELSE IF name \in NetworkTools
                  THEN IF ValidateApiKey(key) # Null
                       THEN Returned(name, key, ValidateApiKey(key)) /\ upstream' = <<>>
                       ELSE /\ upstream' =
                                 << [HandlerRequest(name, args) EXCEPT
                                       !.path = API_BASE_URL \o @]
                                    @@ [headers |->
                                          Obj(ApiClientHeaders(key, name,
                                                currentTransportMode))] >>
                            /\ pc' = "awaiting"
                            /\ UNCHANGED <<tracked, result, escaped>>
                  \* an inherited member of the table, called with no receiver
                  ELSE IF handler = Fn("constructor")
                  THEN Returned(name, key, args) /\ upstream' = <<>>
                  ELSE IF handler = Fn("toString")
                  THEN Returned(name, key, Str("[object Undefined]")) /\ upstream' = <<>>
                  ELSE IF Tag(handler) = "fn"
                  THEN Caught(name, key, "Cannot convert undefined or null to object")
                       /\ upstream' = <<>>
                  ELSE Caught(name, key, "handler is not a function")
                       /\ upstream' = <<>>
    /\ UNCHANGED <<API_KEY, currentTransportMode, resolved>>
    /\ UNCHANGED httpVars
    /\ UNCHANGED <<suspended, started>>

\* Settle sending the request once more after a call that was rejected
Settle_Retry(outcome) ==
    /\ pc = "awaiting"
    /\ LET settled == AxiosSettle(outcome)
           r == IF settled[1] = "resolve"
                THEN FromApiResponse(settled[2], SuccessMessage(req.name, req.args))
                ELSE FromError(settled[2], ErrorContext(req.name))
       IN IF settled[1] = "reject" /\ Len(upstream) < 2
          THEN /\ upstream' = Append(upstream, upstream[1])
               /\ UNCHANGED <<pc, tracked, result, escaped>>
          ELSE Returned(req.name, apiKey, r) /\ UNCHANGED upstream
    /\ reply' = outcome
    /\ UNCHANGED <<API_KEY, currentTransportMode, req, apiKey, invoked,
                   lastKb, resolved>>
    /\ UNCHANGED httpVars
    /\ UNCHANGED <<suspended, started>>

\* The awaited upstream call settles; the handler normalises the outcome and
\* the router tracks and returns it.
Settle(outcome) ==
    /\ pc = "awaiting"
    /\ LET settled == AxiosSettle(outcome)
           r == IF settled[1] = "resolve"
                THEN FromApiResponse(settled[2], SuccessMessage(req.name, req.args))
                ELSE FromError(settled[2], ErrorContext(req.name))
       IN Returned(req.name, apiKey, r)
    /\ reply' = outcome
    /\ UNCHANGED <<API_KEY, currentTransportMode, req, apiKey, invoked, upstream,
                   lastKb, resolved>>
    /\ UNCHANGED httpVars
    /\ UNCHANGED <<suspended, started>>

\* The transport sends the returned value; the server is ready for the next.
Respond ==
    /\ pc = "returned"
    /\ pc' = "idle"
    /\ lastKb' = IF req.name \in KnowledgeTools /\ ~escaped
                 THEN [name |-> req.name, topic |-> GetProp(req.args, "topic"),
                       text |-> ResultText(result)]
                 ELSE NoKb
    /\ req' = NoReq
    /\ apiKey' = Undef
    /\ invoked' = Undef
    /\ upstream' = <<>>
    /\ reply' = NoReply
    /\ tracked' = <<>>
    /\ result' = Undef
    /\ escaped' = FALSE
    /\ UNCHANGED <<API_KEY, currentTransportMode, resolved>>
    /\ UNCHANGED httpVars
    /\ UNCHANGED <<suspended, started>>

NoSession == [method |-> "", sid |-> 0, known |-> FALSE, branch |-> "none",
              transport |-> 0, status |-> 0, message |-> ""]

Init ==
    /\ API_KEY \in EnvKeys
    /\ currentTransportMode \in {"stdio", "http"}
    /\ pc = "idle"
    /\ req = NoReq
    /\ apiKey = Undef
    /\ invoked = Undef
    /\ upstream = <<>>
    /\ reply = NoReply
    /\ tracked = <<>>
    /\ result = Undef
    /\ escaped = FALSE
    /\ lastKb = NoKb
    /\ resolved = Undef
    /\ transports = <<>>
    /\ created = 0
    /\ issued = 0
    /\ closed = {}
    /\ http = NoSession
    /\ suspended = NoInvocation
    /\ started = {currentTransportMode}

ReceiveAny ==
    \E name \in ToolNames :
        \E args \in ArgsOf(name), extra \in ExtrasFor(currentTransportMode) :
            Receive(name, args, extra)

SettleAny == \E outcome \in Outcomes : Settle(outcome)

Next == ReceiveAny \/ SettleAny \/ Respond

Spec == Init /\ [][Next]_vars


-----------------------------------------------------------------------------
(* Credential resolution on its own, over a wider set of header bags *)

AuthorizationNames == {"authorization", "Authorization"}
ApiKeyNames == {"x-api-key", "X-Api-Key"}

\* other capitalisations a header bag may use for the two names
OtherAuthorizationNames == {"AUTHORIZATION"}
OtherApiKeyNames == {"X-API-KEY"}

\* key texts a client may put after "Bearer " or in x-api-key
KeyTexts == {"key-a", "key-x", "key-env", ""}

AuthorizationValues ==
    {Str("Bearer " \o x) : x \in KeyTexts}
    \cup {Str("Basic abc"), Str("bearer key-a"), Str("key-a"), Str("")}

ResolverBags ==
    {HeaderBag(<<an, a>>, <<kn, k>>) :
        an \in AuthorizationNames \cup OtherAuthorizationNames,
        a \in AuthorizationValues \cup {Absent},
        kn \in ApiKeyNames \cup OtherApiKeyNames,
        k \in {Str(x) : x \in KeyTexts} \cup {Absent}}

ResolverExtras ==
    {HttpExtra(b) : b \in ResolverBags}
    \cup {StdioExtra, Undef, Obj(<< <<"requestInfo", Obj(<<>>)>> >>)}

InitResolver ==
    /\ API_KEY \in EnvKeys
    /\ currentTransportMode \in {"stdio", "http"}
    /\ pc = "resolving"
    /\ req \in {[name |-> "", args |-> Obj(<<>>), extra |-> e] : e \in ResolverExtras}
    /\ apiKey = Undef
    /\ invoked = Undef
    /\ upstream = <<>>
    /\ reply = NoReply
    /\ tracked = <<>>
    /\ result = Undef
    /\ escaped = FALSE
    /\ lastKb = NoKb
    /\ resolved = Undef
    /\ transports = <<>>
    /\ created = 0
    /\ issued = 0
    /\ closed = {}
    /\ http = NoSession
    /\ suspended = NoInvocation
    /\ started = {currentTransportMode}

Resolve ==
    /\ pc = "resolving"
    /\ pc' = "resolved"
    /\ resolved' = GetApiKey(req.extra, API_KEY)
    /\ UNCHANGED <<API_KEY, currentTransportMode, req, apiKey, invoked, upstream,
                   reply, tracked, result, escaped, lastKb>>
    /\ UNCHANGED httpVars
    /\ UNCHANGED <<suspended, started>>

NextResolver == Resolve

SpecResolver == InitResolver /\ [][NextResolver]_vars

-----------------------------------------------------------------------------
(* HTTP mode: the MCP endpoint and the session registry *)

MaxTransports == 3

Methods == {"POST", "GET", "DELETE", "PUT"}

\* what the request asks of the transport that receives it
KindsOf(method) ==
    CASE method = "POST" -> {"initialize", "message"}
      [] method = "GET" -> {"stream"}
      [] method = "DELETE" -> {"terminate"}
      [] OTHER -> {"other"}

\* sessionId && transports.has(sessionId); 0 stands for a missing header
HasSession(registry, sid) == sid # 0 /\ sid \in DOMAIN registry

\* OpensConnection accepting every method
OpensConnection_AnyMethod(method) == TRUE

\* OpensConnection accepting POST only
OpensConnection_PostOnly(method) == method = "POST"

\* req.method === "POST" || req.method === "GET"
OpensConnection(method) == method \in {"POST", "GET"}

\* Without leaving the closed session in the registry
Without_Keep(registry, sid) == registry

\* transports.delete(closedSessionId)
Without(registry, sid) == [i \in DOMAIN registry \ {sid} |-> registry[i]]

\* transports.set(newSessionId, { transport, server: connectionServer })
With(registry, sid, entry) ==
    [i \in DOMAIN registry \cup {sid} |-> IF i = sid THEN entry ELSE registry[i]]

\* SessionTransport handing every request to the oldest registered session
SessionTransport_Oldest(registry, sid) ==
    registry[CHOOSE i \in DOMAIN registry : \A j \in DOMAIN registry : i <= j].transport

\* const { transport } = transports.get(sessionId)
SessionTransport(registry, sid) == registry[sid].transport

\* app.all(["/", "/mcp"]): one request on the MCP endpoint
HttpRequest(method, sid, kind) ==
    /\ currentTransportMode = "http"
    /\ IF HasSession(transports, sid)
       THEN \* transport.handleRequest of the registered transport; a
            \* terminate request makes it call onsessionclosed
            /\ transports' = IF kind = "terminate"
                             THEN Without(transports, sid) ELSE transports
            /\ closed' = IF kind = "terminate" THEN closed \cup {sid} ELSE closed
            /\ http' = [method |-> method, sid |-> sid, known |-> TRUE,
                        branch |-> "reuse",
                        transport |-> SessionTransport(transports, sid),
                        status |-> 0, message |-> ""]
            /\ UNCHANGED <<created, issued>>
       ELSE IF OpensConnection(method)
       THEN \* new Server, new transport, connect, transport.handleRequest;
            \* an initialize request makes it call onsessioninitialized
            /\ created < MaxTransports
            /\ created' = created + 1
            /\ issued' = IF kind = "initialize" THEN issued + 1 ELSE issued
            /\ transports' =
                 IF kind = "initialize"
                 THEN With(transports, issued + 1,
                           [transport |-> created + 1, server |-> created + 1])
                 ELSE transports
            /\ http' = [method |-> method, sid |-> sid, known |-> FALSE,
                        branch |-> "new", transport |-> created + 1, status |-> 0,
                        message |-> ""]
            /\ UNCHANGED closed
       ELSE /\ http' = [method |-> method, sid |-> sid, known |-> FALSE,
                        branch |-> "rejected", transport |-> 0, status |-> 400,
                        message |-> "Bad Request: No valid session found"]
            /\ UNCHANGED <<transports, created, issued, closed>>
    /\ UNCHANGED <<API_KEY, currentTransportMode, resolved>>
    /\ UNCHANGED routerVars
    /\ UNCHANGED <<suspended, started>>

InitHttp == Init /\ currentTransportMode = "http"

HttpRequestAny ==
    \E method \in Methods, sid \in 0..MaxTransports :
        \E kind \in KindsOf(method) : HttpRequest(method, sid, kind)

NextHttp == HttpRequestAny

SpecHttp == InitHttp /\ [][NextHttp]_vars


-----------------------------------------------------------------------------
(* Several transports and sessions in one process.  A handler runs without *)
(* interruption until it awaits its upstream call; while it waits the      *)
(* event loop may run the handler of another session.                      *)

\* startStdioServer(): currentTransportMode = "stdio", then the connect
StartStdioServer ==
    /\ currentTransportMode' = "stdio"
    /\ started' = started \cup {"stdio"}
    /\ UNCHANGED <<API_KEY, resolved, suspended>>
    /\ UNCHANGED routerVars
    /\ UNCHANGED httpVars

\* startHttpServer(): currentTransportMode = "http", then the listener
StartHttpServer ==
    /\ currentTransportMode' = "http"
    /\ started' = started \cup {"http"}
    /\ UNCHANGED <<API_KEY, resolved, suspended>>
    /\ UNCHANGED routerVars
    /\ UNCHANGED httpVars

\* the invocation the event loop is running
Current ==
    [pc |-> pc, req |-> req, apiKey |-> apiKey, invoked |-> invoked,
     upstream |-> upstream, reply |-> reply, tracked |-> tracked,
     result |-> result, escaped |-> escaped]

\* Switch with the request kept in one variable shared by all sessions
Switch_SharedRequest ==
    /\ pc \in {"idle", "awaiting"}
    /\ suspended # Current
    /\ suspended' = Current
    /\ pc' = suspended.pc
    /\ req' = IF pc = "idle" THEN suspended.req ELSE req
    /\ apiKey' = suspended.apiKey
    /\ invoked' = suspended.invoked
    /\ upstream' = suspended.upstream
    /\ reply' = suspended.reply
    /\ tracked' = suspended.tracked
    /\ result' = suspended.result
    /\ escaped' = suspended.escaped
    /\ UNCHANGED <<API_KEY, currentTransportMode, lastKb, resolved, started>>
    /\ UNCHANGED httpVars

\* await handler(args || {}, extra): the event loop turns from a handler
\* that is waiting (or from no handler) to the other session's
Switch ==
    /\ pc \in {"idle", "awaiting"}
    /\ suspended # Current
    /\ suspended' = Current
    /\ pc' = suspended.pc
    /\ req' = suspended.req
    /\ apiKey' = suspended.apiKey
    /\ invoked' = suspended.invoked
    /\ upstream' = suspended.upstream
    /\ reply' = suspended.reply
    /\ tracked' = suspended.tracked
    /\ result' = suspended.result
    /\ escaped' = suspended.escaped
    /\ UNCHANGED <<API_KEY, currentTransportMode, lastKb, resolved, started>>
    /\ UNCHANGED httpVars

\* how the promise of a tracking post may end
TrackOutcomes == {"accepted", "failed", "timed out"}

\* TrackSettle letting a rejected tracking post replace the result
TrackSettle_Surfacing(i, outcome) ==
    /\ i \in 1..Len(tracked)
    /\ tracked[i].state = "pending"
    /\ tracked' = [tracked EXCEPT ![i].state = outcome]
    /\ result' = IF outcome = "accepted" THEN result
                 ELSE FormatError(Str("Tracking " \o outcome), <<>>)
    /\ UNCHANGED <<API_KEY, currentTransportMode, pc, req, apiKey, invoked, upstream,
                   reply, escaped, lastKb, resolved, suspended, started>>
    /\ UNCHANGED httpVars

\* axios.post(...).catch(() => {}): the promise of a tracking post settles
TrackSettle(i, outcome) ==
    /\ i \in 1..Len(tracked)
    /\ tracked[i].state = "pending"
    /\ tracked' = [tracked EXCEPT ![i].state = outcome]
    /\ UNCHANGED <<API_KEY, currentTransportMode, pc, req, apiKey, invoked, upstream,
                   reply, result, escaped, lastKb, resolved, suspended, started>>
    /\ UNCHANGED httpVars

SessionNames == {"get_catalogs", "get_api_info", "does_not_exist"}

SessionBags ==
    {HeaderBag(<<"authorization", Absent>>, <<"x-api-key", Absent>>),
     HeaderBag(<<"authorization", Str("Bearer key-a")>>, <<"x-api-key", Absent>>),
     HeaderBag(<<"authorization", Absent>>, <<"x-api-key", Str("key-x")>>)}

\* the extra of a request arriving over one of the started transports
SessionExtras(modes) ==
    (IF "stdio" \in modes THEN {StdioExtra} ELSE {})
    \cup (IF "http" \in modes THEN {HttpExtra(b) : b \in SessionBags} ELSE {})

SessionEnvKeys == {Undef, Str("key-env")}

SessionOutcomes ==
    {o \in Outcomes :
        \/ o.kind = "http" /\ o.status \in {200, 404, 500}
                           /\ o.data = Obj(<< <<"error", Str("Unauthorized")>> >>)
        \/ o.kind = "fail" /\ o.code \in {"ECONNABORTED", "ECONNREFUSED"}}

InitSessions == Init /\ API_KEY \in SessionEnvKeys

ReceiveSession ==
    \E name \in SessionNames, extra \in SessionExtras(started) :
        Receive(name, Obj(<<>>), extra)

SettleSession == \E outcome \in SessionOutcomes : Settle(outcome)

TrackSettleAny == \E i \in 1..Len(tracked), outcome \in TrackOutcomes : TrackSettle(i, outcome)

NextSessions ==
    \/ StartStdioServer
    \/ StartHttpServer
    \/ ReceiveSession
    \/ SettleSession
    \/ Respond
    \/ Switch
    \/ TrackSettleAny

SpecSessions == InitSessions /\ [][NextSessions]_vars


-----------------------------------------------------------------------------
(* The CallTool handler registered on the server of each HTTP connection,  *)
(* written as a function of the invocation it continues so that it can be  *)
(* set beside the steps of the module-level server's handler.              *)

\* the connection handler returning without its tracking call
ConnectionReturned_Untracked(inv, name, key, r) ==
    [inv EXCEPT !.result = r, !.escaped = FALSE, !.pc = "returned"]

\* the connection handler's tracking call and return once the tool handler
\* has produced r
ConnectionReturned(inv, name, key, r) ==
    LET isError == ResultIsError(r)
        errorMessage == IF isError /\ Truthy(ResultText(r)) THEN ResultText(r) ELSE Null
    IN [inv EXCEPT !.result = r,
                   !.tracked = TrackToolUsage(<<>>, name, key, ~isError, errorMessage,
                                              currentTransportMode),
                   !.escaped = FALSE,
                   !.pc = "returned"]

\* the catch block of the connection handler
ConnectionCaught(inv, name, key, message) ==
    LET err == [response |-> Undef, code |-> "", message |-> message]
    IN [inv EXCEPT !.result = FromError(err, "Error executing " \o name),
                   !.tracked = TrackToolUsage(<<>>, name, key, FALSE,
                                   JsOr(Str(message), Str("Error executing " \o name)),
                                   currentTransportMode),
                   !.escaped = FALSE,
                   !.pc = "returned"]

\* A request arrives on a connection: its handler runs up to its first
\* suspension point.
ConnectionReceive(name, args, extra) ==
    LET got == GetApiKey(extra, API_KEY)
        key == got[2]
        handler == ToolHandlers(name)
        arrived == [NoInvocation EXCEPT
                      !.req = [name |-> name, args |-> args, extra |-> extra]]
        inv == [arrived EXCEPT !.apiKey = key,
                               !.invoked = IF Truthy(handler) THEN handler ELSE Undef]
    IN IF got[1] = "throw"
       THEN [arrived EXCEPT !.escaped = TRUE, !.pc = "returned"]
       ELSE IF ~Truthy(handler)
       THEN [inv EXCEPT
               !.result = FormatError(Str("Unknown tool: " \o name), <<>>),
               !.tracked = TrackToolUsage(<<>>, name, key, FALSE,
                                          Str("Unknown tool: " \o name),
                                          currentTransportMode),
               !.pc = "returned"]
       ELSE IF name = "get_api_info"
       THEN ConnectionReturned(inv, name, key, HandleGetApiInfo(args))
       ELSE IF name = "embed_mockup_editor"
       THEN ConnectionReturned(inv, name, key, HandleGetEmbedEditorInfo(args))
       ELSE IF name \in NetworkTools
       THEN IF ValidateApiKey(key) # Null
            THEN ConnectionReturned(inv, name, key, ValidateApiKey(key))
            ELSE [inv EXCEPT
                    !.upstream =
                        << [HandlerRequest(name, args) EXCEPT
                              !.path = API_BASE_URL \o @]
                           @@ [headers |->
                                 Obj(ApiClientHeaders(key, name,
                                       currentTransportMode))] >>,
                    !.pc = "awaiting"]
       \* an inherited member of the table, called with no receiver
       ELSE IF handler = Fn("constructor")
       THEN ConnectionReturned(inv, name, key, args)
       ELSE IF handler = Fn("toString")
       THEN ConnectionReturned(inv, name, key, Str("[object Undefined]"))
       ELSE IF Tag(handler) = "fn"
       THEN ConnectionCaught(inv, name, key,
                             "Cannot convert undefined or null to object")
       ELSE ConnectionCaught(inv, name, key, "handler is not a function")

\* The upstream call awaited by a connection's handler settles.
ConnectionSettle(inv, outcome) ==
    LET settled == AxiosSettle(outcome)
        r == IF settled[1] = "resolve"
             THEN FromApiResponse(settled[2],
                                  SuccessMessage(inv.req.name, inv.req.args))
             ELSE FromError(settled[2], ErrorContext(inv.req.name))
    IN ConnectionReturned([inv EXCEPT !.reply = outcome], inv.req.name, inv.apiKey, r)


-----------------------------------------------------------------------------
(* Properties *)

\* the request headers as the client sent them
HeaderPairs(extra) ==
    LET h == GetProp(GetProp(extra, "requestInfo"), "headers")
    IN IF IsObj(h) THEN h[2] ELSE <<>>

\* the value sent under one of the names, Absent when none was sent
RequestHeader(extra, names) ==
    LET ps == HeaderPairs(extra)
    IN IF \E i \in 1..Len(ps) : ps[i][1] \in names
       THEN ps[CHOOSE i \in 1..Len(ps) : ps[i][1] \in names][2]
       ELSE Absent

SentAuthorization == RequestHeader(req.extra, AuthorizationNames)
SentApiKey == RequestHeader(req.extra, ApiKeyNames)

IsBearer(v) == \E x \in KeyTexts : v = Str("Bearer " \o x)
HasText(v) == v # Absent /\ v # Str("")

\* the headers carry neither a non-empty Bearer token nor a non-empty x-api-key
NoHeaderCredential ==
    /\ ~\E x \in KeyTexts \ {""} : SentAuthorization = Str("Bearer " \o x)
    /\ ~HasText(SentApiKey)

\* a value of the shape { content: [{ type: "text", text }], isError? }
IsToolResult(r) ==
    /\ IsObj(r)
    /\ Tag(GetProp(r, "content")) = "arr"
    /\ Len(GetProp(r, "content")[2]) = 1
    /\ GetProp(GetProp(r, "content")[2][1], "type") = Str("text")
    /\ IsStr(ResultText(r))
    /\ GetProp(r, "isError") \in {Undef, Bool(TRUE), Bool(FALSE)}

ErrorMessageLine(text) == "\n    \"message\": " \o Quote(text)

\* C1: every tool-invocation request ends with the CallTool handler
\* returning one ToolResult, and no exception leaves the handler.
C1_RouterTotal ==
    pc = "returned" => (~escaped /\ IsToolResult(result))

\* C2: with no credential in the headers and no environment key, a
\* network-calling tool returns the error "API key not configured" and the
\* invocation sends nothing upstream, neither a tool request nor a tracking post.
C2_NoKeyNoUpstream ==
    (pc # "idle" /\ req.name \in NetworkTools /\ NoHeaderCredential /\ ~Truthy(API_KEY))
    => /\ pc = "returned"
       /\ GetProp(result, "isError") = Bool(TRUE)
       /\ IsStr(ResultText(result))
       /\ Contains(ResultText(result)[2], ErrorMessageLine("API key not configured"))
       /\ upstream = <<>>
       /\ tracked = <<>>

C2_Witness ==
    /\ pc = "returned"
    /\ req.name = "create_render"
    /\ SentAuthorization = Str("Bearer ")
    /\ ~Truthy(API_KEY)
    /\ ResultIsError(result)
    /\ upstream = <<>>

\* C3: an Authorization header "Bearer X" makes credential resolution return
\* exactly X, whatever the x-api-key header and the environment key are.
C3_BearerWins ==
    pc = "resolved" =>
        \A x \in KeyTexts :
            SentAuthorization = Str("Bearer " \o x) => resolved = <<"return", Str(x)>>

C3_Witness ==
    /\ pc = "resolved"
    /\ SentAuthorization = Str("Bearer key-a")
    /\ SentApiKey = Str("key-x")
    /\ API_KEY = Str("key-env")
    /\ resolved = <<"return", Str("key-a")>>

\* C4: a credential in the headers (a Bearer value, else a non-empty
\* x-api-key value) is what getApiKey returns, and the environment key is
\* returned only when the headers carry none; the result is one source's
\* value as it stands, or the absent environment key.
C4_HeaderOverridesEnv ==
    pc = "resolved" =>
        /\ resolved[1] = "return"
        /\ IsBearer(SentAuthorization) =>
              \E x \in KeyTexts : /\ SentAuthorization = Str("Bearer " \o x)
                                  /\ resolved[2] = Str(x)
        /\ (~IsBearer(SentAuthorization) /\ HasText(SentApiKey)) =>
              resolved[2] = SentApiKey
        /\ (~IsBearer(SentAuthorization) /\ ~HasText(SentApiKey)) =>
              resolved[2] = API_KEY

C4_Witness ==
    /\ pc = "resolved"
    /\ SentAuthorization = Str("Basic abc")
    /\ SentApiKey = Str("key-x")
    /\ API_KEY = Str("key-env")
    /\ resolved = <<"return", Str("key-x")>>

\* the body field holds something: it is there and not empty, null, false or 0
Supplied(v) == v \notin {Undef, Null, Str(""), Bool(FALSE), Num(0)}

\* the message the upstream put in its body: message, else error
UpstreamMessage(data) ==
    IF Supplied(GetProp(data, "message")) THEN GetProp(data, "message")
    ELSE IF Supplied(GetProp(data, "error")) THEN GetProp(data, "error")
    ELSE Absent

\* C5: an upstream response with a status in 400..499, whatever its body,
\* gives an error result whose text carries the status and, as its message,
\* the upstream's message, or "API error (status)" when the body has none.
C5_ClientErrorReported ==
    (pc = "returned" /\ reply.kind = "http" /\ reply.status \in 400..499)
    => /\ GetProp(result, "isError") = Bool(TRUE)
       /\ IsStr(ResultText(result))
       /\ Contains(ResultText(result)[2],
                   "\n    \"status\": " \o ToString(reply.status))
       /\ Contains(ResultText(result)[2],
                   "\n    \"message\": "
                   \o (IF UpstreamMessage(reply.data) = Absent
                       THEN Quote("API error (" \o ToString(reply.status) \o ")")
                       ELSE Serialize(UpstreamMessage(reply.data), 2)))

C5_Witness ==
    /\ pc = "returned"
    /\ reply.kind = "http"
    /\ reply.status = 404
    /\ reply.data = Obj(<< <<"message", Str("Invalid \"uuid\"")>> >>)
    /\ ResultIsError(result)
    /\ Contains(ResultText(result)[2], "\"status\": 404")

\* C6: an upstream response with a status in 200..299 gives a result that
\* is not an error and whose text has every field of the upstream body with
\* the upstream's value, for tools with and without a success label.
C6_SuccessKeepsBody ==
    (pc = "returned" /\ reply.kind = "http" /\ reply.status \in 200..299)
    => /\ ~ResultIsError(result)
       /\ IsStr(ResultText(result))
       /\ IsObj(reply.data) =>
            \A i \in 1..Len(reply.data[2]) :
                Contains(ResultText(result)[2],
                         "\n  " \o Quote(reply.data[2][i][1]) \o ": "
                         \o Serialize(reply.data[2][i][2], 1))

C6_Witness ==
    /\ pc = "returned"
    /\ reply.kind = "http"
    /\ reply.status = 200
    /\ req.name = "create_render"
    /\ GetProp(reply.data, "message") = Str("done")
    /\ ~ResultIsError(result)
    /\ Contains(ResultText(result)[2], "\n  \"message\": \"done\"")

\* C7: a tool name outside the catalog gets an error result whose message
\* has "Unknown tool" and the name; no handler is called and nothing is sent
\* to the upstream API, with or without a credential.
C7_UnknownToolRejected ==
    (pc = "returned" /\ req.name \notin KnowledgeTools \cup NetworkTools)
    => /\ GetProp(result, "isError") = Bool(TRUE)
       /\ IsStr(ResultText(result))
       /\ Contains(ResultText(result)[2], "Unknown tool: " \o req.name)
       /\ invoked = Undef
       /\ upstream = <<>>
       /\ tracked = <<>>

\* the call being answered repeats the knowledge-base call before it
RepeatsLastKb ==
    /\ lastKb.name = req.name
    /\ lastKb.topic = GetProp(req.args, "topic")

\* C8 as stated: a repeated knowledge-base call returns the same text and
\* neither call causes any network call, with or without a credential.
C8_KbNoNetwork ==
    (pc = "returned" /\ req.name \in KnowledgeTools)
    => /\ RepeatsLastKb => ResultText(result) = lastKb.text
       /\ upstream = <<>>
       /\ tracked = <<>>

\* C8 amended: a repeated knowledge-base call returns the same text and
\* sends no request to a tool endpoint; the one network call is the tracking
\* post to /mcp/track, sent exactly when a credential is resolved.
C8_KbRepeatable ==
    (pc = "returned" /\ req.name \in KnowledgeTools)
    => /\ RepeatsLastKb => ResultText(result) = lastKb.text
       /\ upstream = <<>>
       /\ (tracked = <<>>) <=> ~Truthy(apiKey)
       /\ Len(tracked) <= 1
       /\ \A i \in 1..Len(tracked) : tracked[i].url = API_BASE_URL \o "/mcp/track"

C8_Witness ==
    /\ pc = "returned"
    /\ req.name = "get_api_info"
    /\ RepeatsLastKb
    /\ GetProp(req.args, "topic") = Str("billing")
    /\ IsStr(lastKb.text)
    /\ ResultText(result) = lastKb.text
    /\ Len(tracked) = 1

RenderTools == {"create_render", "create_batch_render", "export_print_files"}

OptionalRenderFields(name) ==
    IF name = "create_batch_render" THEN {"export_options"}
    ELSE {"export_label", "export_options", "text_layers"}

\* C9: for the three render tools, an optional field (export_options,
\* export_label, text_layers) missing from the arguments is not a key of
\* the upstream request body.
C9_AbsentOptionalOmitted ==
    (req.name \in RenderTools /\ upstream # <<>>)
    => \A f \in OptionalRenderFields(req.name) :
          ~HasKey(req.args[2], f) => ~HasKey(upstream[1].body[2], f)

C9_Witness ==
    /\ pc = "awaiting"
    /\ req.name = "create_render"
    /\ ~HasKey(req.args[2], "export_options")
    /\ HasKey(req.args[2], "export_label")
    /\ upstream # <<>>
    /\ HasKey(upstream[1].body[2], "mockup_uuid")
    /\ ~HasKey(upstream[1].body[2], "export_options")

\* the last request carried a session id whose session had been closed
AfterClose == http.sid \in closed /\ ~http.known

\* C10 as stated: a request carrying the id of a closed session gets a new
\* transport and server and is not answered with an error.
C10_ClosedIdAccepted ==
    AfterClose => (http.branch = "new" /\ http.status < 400)

\* C10 amended: a POST or GET carrying the id of a closed session gets a new
\* transport and server, to which it is handed without an error from the
\* endpoint, and the closed id stays unregistered; any other method is
\* answered 400 and creates nothing.
C10_ClosedIdReopens ==
    AfterClose =>
        /\ http.sid \notin DOMAIN transports
        /\ IF http.method \in {"POST", "GET"}
           THEN /\ http.branch = "new"
                /\ http.transport = created
                /\ http.status = 0
           ELSE /\ http.branch = "rejected"
                /\ http.transport = 0
                /\ http.status = 400

C10_Witness ==
    /\ AfterClose
    /\ http.method = "GET"
    /\ http.branch = "new"
    /\ http.transport = created

\* C11: a request whose mcp-session-id is a registered id is handed to the
\* transport (and so the server instance) registered under that id, never to
\* another session's, and creates no transport and no registry entry.
C11_RegisteredIdReused ==
    [][HasSession(transports, http'.sid)
       => /\ http'.branch = "reuse"
          /\ http'.transport = transports[http'.sid].transport
          /\ \A other \in DOMAIN transports \ {http'.sid} :
                http'.transport # transports[other].transport
          /\ created' = created
          /\ issued' = issued
          /\ DOMAIN transports' \subseteq DOMAIN transports]_vars

C11_Witness ==
    /\ http.branch = "reuse"
    /\ http.sid \in DOMAIN transports
    /\ Cardinality(DOMAIN transports) >= 2
    /\ http.transport = transports[http.sid].transport
    /\ http.transport # http.sid
    /\ \E other \in DOMAIN transports : other < http.sid

\* C12: the registry holds exactly the ids whose session-initialized callback
\* has fired and whose session-closed callback has not; each entry binds its
\* id to the transport and the server created by one and the same request, and
\* no two ids share a transport.
C12_RegistryExact ==
    /\ DOMAIN transports = (1..issued) \ closed
    /\ closed \subseteq 1..issued
    /\ \A i \in DOMAIN transports :
          /\ transports[i].transport = transports[i].server
          /\ transports[i].transport \in 1..created
          /\ \A j \in DOMAIN transports :
                transports[i].transport = transports[j].transport => i = j

C12_Witness ==
    /\ issued >= 2
    /\ closed # {}
    /\ DOMAIN transports # {}
    /\ created > issued
    /\ http.branch = "reuse"
    /\ http.sid \in closed

\* the members an error text can carry directly under "error"
ErrorFieldNames ==
    {"message", "status", "details", "context", "suggestion", "solution", "get_key_at"}

ErrorFieldLine(field) == "\n    \"" \o field \o "\": "

\* the members of the "error" object in an error text
ErrorFields(text) == {f \in ErrorFieldNames : Contains(text, ErrorFieldLine(f))}

ServerErrorReply == reply.kind = "http" /\ reply.status >= 500
ConnectionFailureReply == reply.kind = "fail" /\ reply.code \in {"ENOTFOUND", "ECONNREFUSED"}

\* what the tool's handler returns when the connection is refused
ConnectionRefusedResult(name) ==
    FromError([response |-> Undef, code |-> "ECONNREFUSED",
               message |-> "connect ECONNREFUSED"], ErrorContext(name))

\* C13 as stated: for one tool, an upstream status of 500 or more gives the
\* same message and the same detail fields as a refused connection.
C13_UnavailableOneShape ==
    (pc = "returned" /\ ServerErrorReply)
    => LET refused == ResultText(ConnectionRefusedResult(req.name))[2]
           text == ResultText(result)[2]
       IN /\ ErrorFields(text) = ErrorFields(refused)
          /\ Contains(text, ErrorMessageLine("Network error"))
             <=> Contains(refused, ErrorMessageLine("Network error"))

\* C13 amended: both are error results, of two shapes.  A status of 500 or
\* more is reported with the fields message, status and details, the status
\* being the upstream's; a DNS failure or refused connection is reported with
\* the message "Network error" and the fields context and suggestion, the
\* context being the handler's label.
C13_UnavailableTwoShapes ==
    /\ (pc = "returned" /\ ServerErrorReply)
       => LET text == ResultText(result)[2]
          IN /\ ResultIsError(result)
             /\ ErrorFields(text) = {"message", "status", "details"}
             /\ Contains(text, ErrorFieldLine("status") \o ToString(reply.status))
             /\ ~Contains(text, ErrorMessageLine("Network error"))
    /\ (pc = "returned" /\ ConnectionFailureReply)
       => LET text == ResultText(result)[2]
          IN /\ ResultIsError(result)
             /\ ErrorFields(text) = {"message", "context", "suggestion"}
             /\ Contains(text, ErrorMessageLine("Network error"))
             /\ Contains(text, ErrorFieldLine("context") \o Quote(ErrorContext(req.name)))

C13_Witness ==
    /\ pc = "returned"
    /\ ServerErrorReply
    /\ reply.status = 503
    /\ ErrorFields(ResultText(result)[2])
         # ErrorFields(ResultText(ConnectionRefusedResult(req.name))[2])

\* the key a request's own headers name, else the process-wide fallback
OwnKey(extra) ==
    LET a == RequestHeader(extra, AuthorizationNames)
        k == RequestHeader(extra, ApiKeyNames)
    IN IF \E x \in KeyTexts : a = Str("Bearer " \o x)
       THEN Str(CHOOSE x \in KeyTexts : a = Str("Bearer " \o x))
       ELSE IF HasText(k) THEN k ELSE API_KEY

\* the x-api-key header of every request an invocation has sent
SentKeys(inv) ==
    {GetProp(inv.upstream[i].headers, "x-api-key") : i \in 1..Len(inv.upstream)}
    \cup {GetProp(inv.tracked[i].headers, "x-api-key") : i \in 1..Len(inv.tracked)}

\* C14: every request an invocation sends upstream carries the key named by
\* that invocation's own headers, else the fallback, also while another
\* session's invocation with another key is in progress; the key the router
\* holds is the same one, and once the invocation has ended nothing of it,
\* the key included, is left in the handler's state.
C14_OwnKeyOnly ==
    \A inv \in {Current, suspended} :
        /\ SentKeys(inv) \subseteq {OwnKey(inv.req.extra)}
        /\ inv.pc # "idle" => inv.apiKey = OwnKey(inv.req.extra)
        /\ inv.pc = "idle" => inv = NoInvocation

C14_Witness ==
    /\ pc = "awaiting"
    /\ suspended.pc = "awaiting"
    /\ API_KEY = Str("key-env")
    /\ SentKeys(Current) = {Str("key-a")}
    /\ SentKeys(suspended) = {Str("key-x")}

\* C15: nothing is retried.  An invocation sends at most one request to its
\* tool's endpoint, and when the call has ended, with a 2xx, 4xx or 5xx
\* response, a timeout or a network failure, that one request to that
\* endpoint is still all that was sent.
C15_NoRetry ==
    /\ Len(upstream) <= 1
    /\ upstream # <<>> => req.name \in NetworkTools
    /\ (pc = "returned" /\ reply.kind # "none")
       => /\ Len(upstream) = 1
          /\ upstream[1].path = API_BASE_URL \o HandlerRequest(req.name, req.args).path
          /\ upstream[1].method = HandlerRequest(req.name, req.args).method

C15_Witness ==
    /\ pc = "returned"
    /\ req.name = "create_render"
    /\ reply.kind = "fail"
    /\ reply.code = "ECONNABORTED"
    /\ ResultIsError(result)
    /\ Len(upstream) = 1

\* a step in which the promise of a tracking post settles
TrackingSettles ==
    /\ tracked # <<>>
    /\ Len(tracked') = Len(tracked)
    /\ tracked' # tracked

\* C16: a tracking post exists only once the handler's result is computed;
\* the router can return that result whatever the state of the post, pending
\* included; and the settling of the post, accepted, failed or timed out,
\* changes neither the result nor the position of the handler.
C16_TrackingDetached ==
    /\ [](tracked # <<>> => (pc = "returned" /\ result # Undef))
    /\ [](pc = "returned" => ENABLED Respond)
    /\ [][TrackingSettles
           => (result' = result /\ pc' = pc /\ upstream' = upstream /\ reply' = reply)]_vars

C16_Witness ==
    /\ pc = "returned"
    /\ req.name = "get_catalogs"
    /\ reply.kind = "http"
    /\ reply.status = 200
    /\ ~ResultIsError(result)
    /\ Len(tracked) = 1
    /\ tracked[1].state = "timed out"

\* the kind of failure an invocation has met
ErrorKind ==
    CASE reply.kind = "http" /\ reply.status >= 500 -> "upstream 5xx"
      [] reply.kind = "http" /\ reply.status \in 400..499 -> "upstream 4xx"
      [] reply.kind = "fail" /\ reply.code = "ECONNABORTED" -> "timeout"
      [] reply.kind = "fail" /\ reply.code \in {"ENOTFOUND", "ECONNREFUSED"}
            -> "network failure"
      [] reply.kind = "fail" -> "other exception"
      [] reply.kind = "none" /\ invoked = Undef -> "unknown tool"
      [] reply.kind = "none" /\ req.name \in NetworkTools -> "missing credential"
      [] reply.kind = "none" -> "other exception"
      [] OTHER -> "none"

\* C17 as stated: every error result carries a message and, as its detail
\* block, a status or a context field.
C17_ErrorHasDetail ==
    (pc = "returned" /\ ~escaped /\ ResultIsError(result))
    => LET fields == ErrorFields(ResultText(result)[2])
       IN /\ "message" \in fields
          /\ "status" \in fields \/ "context" \in fields

\* C17 amended: every error result carries a message.  With it come status
\* and details for an upstream 4xx or 5xx, context and suggestion for a
\* timeout or a network failure, solution and get_key_at for a missing
\* credential, and nothing else for an unknown tool or any other exception.
C17_ErrorFieldsByKind ==
    (pc = "returned" /\ ~escaped /\ ResultIsError(result))
    => LET fields == ErrorFields(ResultText(result)[2])
       IN /\ IsStr(ResultText(result))
          /\ "message" \in fields
          /\ ErrorKind \in {"upstream 4xx", "upstream 5xx"}
                => fields = {"message", "status", "details"}
          /\ ErrorKind \in {"timeout", "network failure"}
                => fields = {"message", "context", "suggestion"}
          /\ ErrorKind = "missing credential"
                => fields = {"message", "solution", "get_key_at"}
          /\ ErrorKind \in {"unknown tool", "other exception"}
                => fields = {"message"}
          /\ ErrorKind # "none"

C17_Witness ==
    /\ pc = "returned"
    /\ ResultIsError(result)
    /\ ErrorKind = "unknown tool"
    /\ req.name = "does_not_exist"
    /\ ErrorFields(ResultText(result)[2]) = {"message"}

\* the transport a request arrived over
ModeOf(extra) == IF Truthy(GetProp(extra, "requestInfo")) THEN "http" ELSE "stdio"

\* the request an invocation sends to its tool's endpoint when the process
\* serves nothing else, labelled with the given transport mode
AloneRequest(inv, mode) ==
    [HandlerRequest(inv.req.name, inv.req.args) EXCEPT !.path = API_BASE_URL \o @]
    @@ [headers |-> Obj(ApiClientHeaders(OwnKey(inv.req.extra), inv.req.name, mode))]

\* the result that invocation returns for the outcome of its upstream call
AloneResult(inv) ==
    LET settled == AxiosSettle(inv.reply)
    IN IF settled[1] = "resolve"
       THEN FromApiResponse(settled[2], SuccessMessage(inv.req.name, inv.req.args))
       ELSE FromError(settled[2], ErrorContext(inv.req.name))

\* a step of a CallTool handler
HandlerStep == pc' # pc /\ suspended' = suspended

\* C18 as stated: whatever else the process is doing, what an invocation
\* sends upstream and what it returns are what it sends and returns alone;
\* only the catalog and the fallback key are shared, so the request carries
\* the label of the transport that delivered the invocation.
C18_SessionsIsolated ==
    \A inv \in {Current, suspended} :
        inv.upstream # <<>>
        => /\ inv.upstream = <<AloneRequest(inv, ModeOf(inv.req.extra))>>
           /\ inv.pc = "returned" => inv.result = AloneResult(inv)

\* C18 amended: under every interleaving what an invocation returns is what
\* it returns alone, and what it sends upstream is what it sends alone but
\* for the x-mcp-transport-mode header, which carries the value the shared
\* variable currentTransportMode has when the request is built; the handler
\* writes neither that variable, nor the fallback key, nor the registry.
C18_SharedTransportMode ==
    /\ [](\A inv \in {Current, suspended} :
            inv.upstream # <<>>
            => /\ \E mode \in {"stdio", "http"} :
                     inv.upstream = <<AloneRequest(inv, mode)>>
               /\ inv.pc = "returned" => inv.result = AloneResult(inv))
    /\ [][HandlerStep
           => /\ UNCHANGED <<API_KEY, currentTransportMode, started, transports>>
              /\ (upstream = <<>> /\ upstream' # <<>>)
                    => upstream' = <<AloneRequest(Current', currentTransportMode)>>]_vars

C18_Witness ==
    /\ pc = "awaiting"
    /\ suspended.pc = "awaiting"
    /\ ModeOf(req.extra) = "http"
    /\ ModeOf(suspended.req.extra) = "http"
    /\ upstream = <<AloneRequest(Current, "stdio")>>
    /\ suspended.upstream = <<AloneRequest(suspended, "http")>>
    /\ OwnKey(req.extra) # OwnKey(suspended.req.extra)

\* C19: a knowledge-base tool returns a success result for every topic, also
\* when the request resolves to no credential; it never returns the error
\* "API key not configured".
C19_KbNeedsNoKey ==
    (pc = "returned" /\ req.name \in KnowledgeTools)
    => /\ ~escaped
       /\ IsToolResult(result)
       /\ ~ResultIsError(result)
       /\ ~Contains(ResultText(result)[2], "API key not configured")

\* the upstream call ended with an exception that is neither a timeout, nor a
\* DNS or refused-connection failure, nor an HTTP error response
OtherExceptionReply ==
    /\ reply.kind = "fail"
    /\ reply.code \notin {"ECONNABORTED", "ENOTFOUND", "ECONNREFUSED"}

\* C20: after such an exception the error text carries both the handler's
\* context label and the exception's message.
C20_ContextAndMessage ==
    (pc = "returned" /\ OtherExceptionReply)
    => /\ ResultIsError(result)
       /\ Contains(ResultText(result)[2], ErrorContext(req.name))
       /\ Contains(ResultText(result)[2], reply.message)

\* C21: a timeout of the upstream call gives an error result with the
\* message "Request timeout" and the suggestion to retry with smaller
\* batches; a DNS failure or a refused connection gives one with the message
\* "Network error" and the suggestion to check the connection; both carry the
\* handler's context label in the field context.
C21_TimeoutAndNetworkMessages ==
    /\ (pc = "returned" /\ reply.kind = "fail" /\ reply.code = "ECONNABORTED")
       => LET text == ResultText(result)[2]
          IN /\ ResultIsError(result)
             /\ Contains(text, ErrorMessageLine("Request timeout"))
             /\ Contains(text, ErrorFieldLine("suggestion")
                    \o Quote("The API request took too long. Try again or use smaller batch sizes."))
             /\ Contains(text, ErrorFieldLine("context") \o Quote(ErrorContext(req.name)))
    /\ (pc = "returned" /\ ConnectionFailureReply)
       => LET text == ResultText(result)[2]
          IN /\ ResultIsError(result)
             /\ Contains(text, ErrorMessageLine("Network error"))
             /\ Contains(text, ErrorFieldLine("suggestion")
                    \o Quote("Unable to reach the API. Check your internet connection."))
             /\ Contains(text, ErrorFieldLine("context") \o Quote(ErrorContext(req.name)))

C21_Witness ==
    /\ pc = "returned"
    /\ req.name = "get_mockups"
    /\ reply.kind = "fail"
    /\ reply.code = "ECONNABORTED"
    /\ Contains(ResultText(result)[2], ErrorMessageLine("Request timeout"))
    /\ Contains(ResultText(result)[2],
                ErrorFieldLine("context") \o Quote("Failed to get mockups"))

\* the upstream answered the call with a status below 400
SuccessReply == reply.kind = "http" /\ reply.status < 400

\* the text has this top-level member with this value
HasMember(text, key, value) ==
    Contains(text, "\n  " \o Quote(key) \o ": " \o Serialize(value, 1))

\* C22: on an upstream success, the content of a tool with a success label
\* is an object whose message is that label, together with the fields of the
\* upstream body; the content of a tool without a label is the upstream
\* body as it stands.
C22_SuccessLabelled ==
    (pc = "returned" /\ SuccessReply)
    => LET label == SuccessMessage(req.name, req.args)
           text == ResultText(result)[2]
       IN /\ ~ResultIsError(result)
          /\ IsStr(ResultText(result))
          /\ (Truthy(label) /\ IsObj(reply.data))
                => /\ HasMember(text, "message", label)
                   /\ \A i \in 1..Len(reply.data[2]) :
                         reply.data[2][i][1] # "message"
                         => HasMember(text, reply.data[2][i][1], reply.data[2][i][2])
          /\ ~Truthy(label)
                => ResultText(result) = (IF IsStr(reply.data) THEN reply.data
                                         ELSE Stringify(reply.data))

\* the argument names a tool's handler reads
DeclaredFields(name) == {ArgFields(name)[i][1] : i \in 1..Len(ArgFields(name))}

\* the members of a JSON body as they go on the wire: JSON drops undefined
SentFields(payload) ==
    {payload[2][i] : i \in {j \in 1..Len(payload[2]) : payload[2][j][2] # Undef}}

QueryTools == {"get_collections", "get_mockups"}

\* C23: the request a network handler sends has every field that is in the
\* arguments, required or optional, under the same name and with the same
\* value, and has no field that is not in the arguments and no null.
C23_FieldsCopied ==
    (pc # "idle" /\ upstream # <<>>)
    => LET present == {k \in DeclaredFields(req.name) : HasKey(req.args[2], k)}
       IN IF req.name \in QueryTools
          THEN \A k \in DeclaredFields(req.name) :
                  IF k \in present
                  THEN Contains(upstream[1].path,
                                k \o "=" \o FormEncode(ToJsString(GetProp(req.args, k))))
                  ELSE ~Contains(upstream[1].path, k \o "=")
          ELSE IsObj(upstream[1].body)
               => /\ \A k \in present :
                       <<k, GetProp(req.args, k)>> \in SentFields(upstream[1].body)
                  /\ \A f \in SentFields(upstream[1].body) :
                       f[1] \in present /\ f[2] # Null

\* the key the bag names when its headers are read under these names: the
\* text after "Bearer ", else a non-empty x-api-key value, else the fallback
KeyFrom(extra, authorizationNames, apiKeyNames) ==
    LET a == RequestHeader(extra, authorizationNames)
        k == RequestHeader(extra, apiKeyNames)
    IN IF \E x \in KeyTexts : a = Str("Bearer " \o x)
       THEN Str(CHOOSE x \in KeyTexts : a = Str("Bearer " \o x))
       ELSE IF HasText(k) THEN k ELSE API_KEY

\* C24 as stated: the two headers are found under any capitalisation of
\* their names, and only the exact prefix "Bearer " marks a token.
C24_AnyCapitalisation ==
    pc = "resolved"
    => resolved = <<"return",
                    KeyFrom(req.extra, AuthorizationNames \cup OtherAuthorizationNames,
                            ApiKeyNames \cup OtherApiKeyNames)>>

\* C24 amended: the Authorization header is found under the names
\* authorization and Authorization, the key header under x-api-key and
\* X-Api-Key; a header under any other capitalisation is not read.  Only the
\* exact prefix "Bearer " marks a token.
C24_TwoSpellings ==
    pc = "resolved"
    => /\ resolved = <<"return", KeyFrom(req.extra, AuthorizationNames, ApiKeyNames)>>
       /\ SentAuthorization = Str("bearer key-a")
             => resolved[2] = (IF HasText(SentApiKey) THEN SentApiKey ELSE API_KEY)

C24_Witness ==
    /\ pc = "resolved"
    /\ RequestHeader(req.extra, OtherAuthorizationNames) = Str("Bearer key-a")
    /\ RequestHeader(req.extra, OtherApiKeyNames) = Str("key-x")
    /\ API_KEY = Str("key-env")
    /\ resolved = <<"return", Str("key-env")>>

\* C25: a request whose method is neither GET nor POST and whose session id
\* is missing or not registered is answered with status 400 and the message
\* "Bad Request: No valid session found"; it creates no transport or server
\* and leaves the registry as it was.
C25_NoSessionRejected ==
    [][(~HasSession(transports, http'.sid) /\ http'.method \notin {"GET", "POST"})
       => /\ http'.branch = "rejected"
          /\ http'.status = 400
          /\ http'.message = "Bad Request: No valid session found"
          /\ http'.transport = 0
          /\ UNCHANGED <<transports, created, issued, closed>>]_vars

C25_Witness ==
    /\ http.method = "DELETE"
    /\ http.sid \notin DOMAIN transports
    /\ http.sid # 0
    /\ http.sid \notin closed
    /\ http.status = 400
    /\ http.message = "Bad Request: No valid session found"
    /\ DOMAIN transports # {}
    /\ created < MaxTransports

\* C26: the CallTool handler of an HTTP connection's server behaves as the
\* handler of the module-level server: given the request the module-level
\* handler received (name, arguments, transport context) it reaches the same
\* state up to the upstream call, the same tool result and the same tracking
\* event without one, and for every outcome of the upstream call it returns
\* the same tool result and posts the same tracking event.
C26_HandlersAgree ==
    [][/\ (pc = "idle" /\ pc' # "idle")
             => Current' = ConnectionReceive(req'.name, req'.args, req'.extra)
       /\ (pc = "awaiting" /\ pc' = "returned")
             => Current' = ConnectionSettle(Current, reply')]_vars

C26_Witness ==
    /\ pc = "returned"
    /\ ModeOf(req.extra) = "http"
    /\ upstream # <<>>
    /\ reply.kind = "http"
    /\ ResultIsError(result)
    /\ tracked # <<>>
    /\ Current = ConnectionSettle([Current EXCEPT !.pc = "awaiting", !.reply = NoReply,
                                                   !.tracked = <<>>, !.result = Undef],
                                  reply)

\* C27: the catalog and the handler table name the same tools: every catalog
\* name is the key of exactly one handler-table entry, every handler-table
\* key is a catalog name, and no two catalog entries share a name; so a call
\* of a catalog tool finds that tool's handler and is never answered with
\* "Unknown tool".
C27_CatalogMatchesHandlers ==
    /\ \A i \in DOMAIN tools :
          Cardinality({j \in DOMAIN ToolHandlerKeys : ToolHandlerKeys[j] = tools[i]}) = 1
    /\ \A j \in DOMAIN ToolHandlerKeys : \E i \in DOMAIN tools : tools[i] = ToolHandlerKeys[j]
    /\ \A i, k \in DOMAIN tools : tools[i] = tools[k] => i = k
    /\ (pc # "idle" /\ ~escaped /\ \E i \in DOMAIN tools : tools[i] = req.name)
       => /\ invoked = Fn(req.name)
          /\ pc = "returned"
                => ~(/\ IsStr(ResultText(result))
                     /\ Contains(ResultText(result)[2], "Unknown tool"))

C27_Witness ==
    /\ pc = "returned"
    /\ req.name = tools[Len(tools)]
    /\ invoked = Fn("delete_psd")
    /\ upstream # <<>>
    /\ ~ResultIsError(result)

\* C28: an Authorization header that is exactly "Bearer ", with nothing after
\* the prefix, resolves to the empty key: neither the x-api-key header nor
\* the environment key is consulted, so a network tool answers "API key not
\* configured" and sends nothing upstream even when another source holds a
\* key.
C28_EmptyBearerToken ==
    (pc # "idle" /\ SentAuthorization = Str("Bearer "))
    => /\ ~escaped
       /\ apiKey = Str("")
       /\ req.name \in NetworkTools
             => /\ pc = "returned"
                /\ upstream = <<>>
                /\ ResultIsError(result)
                /\ Contains(ResultText(result)[2], "\"message\": \"API key not configured\"")

C28_Witness ==
    /\ pc = "returned"
    /\ SentAuthorization = Str("Bearer ")
    /\ SentApiKey = Str("key-x")
    /\ API_KEY = Str("key-env")
    /\ req.name = "get_catalogs"
    /\ apiKey = Str("")
    /\ result = ValidateApiKey(Str(""))

\* the keys of the topic table of each knowledge-base tool
TopicKeys(name) ==
    IF name = "get_api_info"
    THEN {"integration", "billing", "rate_limits", "formats", "best_practices",
          "support", "all"}
    ELSE {"quick_start", "npm_integration", "data_options", "callback_response",
          "mockanything_api", "mockanything_events", "react_example",
          "editor_types", "specific_mockup", "integration_steps", "all"}

\* the complete knowledge base of a knowledge-base tool
KnowledgeBase(name) ==
    IF name = "get_api_info" THEN API_KNOWLEDGE_BASE ELSE EMBED_EDITOR_KNOWLEDGE_BASE

\* the call being answered names no topic, or one that is not a key of the
\* tool's topic table
UnrecognizedTopic ==
    \/ GetProp(req.args, "topic") = Undef
    \/ /\ IsStr(GetProp(req.args, "topic"))
       /\ GetProp(req.args, "topic")[2] \notin TopicKeys(req.name)

\* C29: a knowledge-base tool called with no topic, or with a topic that is
\* not a key of its topic table, returns the complete knowledge base as a
\* success result, the result of topic "all"; an unrecognized topic never
\* gives an error or anything but the complete knowledge base.
C29_UnknownTopicIsAll ==
    (pc = "returned" /\ req.name \in KnowledgeTools /\ UnrecognizedTopic)
    => /\ ~escaped
       /\ ~ResultIsError(result)
       /\ result = FormatOk(KnowledgeBase(req.name))

\* the call in progress lacks an argument its tool's schema requires
LacksRequired ==
    \E k \in RequiredArguments(req.name) : GetProp(req.args, k) = Undef

\* C30: the router does not validate required arguments.  A network tool
\* called with a credential and without a required argument still sends
\* exactly one request upstream, and what it returns is the normalisation of
\* that request's outcome alone: the result the same tool returns for the
\* same outcome when called with no arguments at all.
C30_NoArgumentValidation ==
    (pc # "idle" /\ req.name \in NetworkTools /\ Truthy(apiKey) /\ LacksRequired)
    => /\ Len(upstream) = 1
       /\ upstream[1].path = API_BASE_URL \o HandlerRequest(req.name, req.args).path
       /\ pc = "returned"
             => /\ reply.kind # "none"
                /\ result = AloneResult([Current EXCEPT !.req.args = Obj(<<>>)])

C30_Witness ==
    /\ pc = "returned"
    /\ req.name = "get_mockup_by_uuid"
    /\ GetProp(req.args, "uuid") = Undef
    /\ Truthy(apiKey)
    /\ upstream[1].path = API_BASE_URL \o "/mockup/undefined"
    /\ reply.kind = "http"
    /\ reply.status = 200
    /\ ~ResultIsError(result)

====
